---------------------------- MODULE Spec2Model ----------------------------
(***************************************************************************)
(* Model of the document-boundary detection engine of DocSafes             *)
(* (src/src/lib/documentDetection.ts): the per-frame detection pipeline,   *)
(* the quadrilateral selector and the stability tracker.                   *)
(*                                                                         *)
(* Numbers.  Pixel buffers hold integers 0..255.  Coordinates of the       *)
(* analysis canvas are integers.  Real-valued quantities of the source are *)
(* kept exact as integers or as fractions compared by cross-multiplying:   *)
(* distances are compared through their squares, areas through twice the   *)
(* area.  The confidence score, which involves a square root, is kept in   *)
(* thousandths, rounded down.                                              *)
(***************************************************************************)
EXTENDS Integers, Sequences, FiniteSets, TLC

(***************************************************************************)
(* Program constants                                                       *)
(***************************************************************************)
STABILITY_THRESHOLD == 5
STABILITY_TOLERANCE == 15
maxAttempts == 10000
thresholdValue == 50
minContourLength == 50

\* the value null (a record, so that it compares with quads and results)
Null == [null |-> TRUE]

Min(a, b) == IF a < b THEN a ELSE b
Max(a, b) == IF a > b THEN a ELSE b
Abs(a) == IF a < 0 THEN -a ELSE a

Point(px, py) == [x |-> px, y |-> py]

(***************************************************************************)
(* A typed array of n elements is a sequence of length n: element idx of   *)
(* the source is element idx + 1 here.  At(a, idx) reads a[idx].           *)
(***************************************************************************)
At(a, idx) == a[idx + 1]

\* the sequence as an explicit tuple (each element computed once)
Eager(s) == s \o <<>>

\* Math.round of a non-negative fraction num/den
MathRound(num, den) == (2 * num + den) \div (2 * den)

\* The value a Uint8ClampedArray stores for sqrt(m), m a non-negative
\* integer below 255^2: the nearest integer (sqrt(m) is never k + 1/2).
RECURSIVE SqrtSearch(_, _, _)
SqrtSearch(m, lo, hi) ==
    IF lo = hi THEN lo
    ELSE LET mid == (lo + hi + 1) \div 2
         IN  IF mid * mid - mid < m THEN SqrtSearch(m, mid, hi)
             ELSE SqrtSearch(m, lo, mid - 1)

RoundSqrt(m) == SqrtSearch(m, 0, 255)

\* floor(sqrt(m)) for 0 <= m < 2^31
RECURSIVE FloorSqrtSearch(_, _, _)
FloorSqrtSearch(m, lo, hi) ==
    IF lo = hi THEN lo
    ELSE LET mid == (lo + hi + 1) \div 2
         IN  IF mid * mid <= m THEN FloorSqrtSearch(m, mid, hi)
             ELSE FloorSqrtSearch(m, lo, mid - 1)

FloorSqrt(m) == FloorSqrtSearch(m, 0, 46340)

toGrayscale(imageData) ==
    Eager([i \in 1 .. (imageData.width * imageData.height) |->
        LET px == imageData.data[i]
        IN  MathRound(299 * px[1] + 587 * px[2] + 114 * px[3], 1000)])

kernel == <<1, 2, 1, 2, 4, 2, 1, 2, 1>>
sobelX == <<-1, 0, 1, -2, 0, 2, -1, 0, 1>>
sobelY == <<-1, -2, -1, 0, 0, 0, 1, 2, 1>>

\* sum over the 3x3 neighbourhood of (x, y) of gray * k, in the order
\* ky = -1..1, kx = -1..1 of the source loops
Convolve(gray, width, x, y, k) ==
      At(gray, (y - 1) * width + (x - 1)) * k[1]
    + At(gray, (y - 1) * width + x) * k[2]
    + At(gray, (y - 1) * width + (x + 1)) * k[3]
    + At(gray, y * width + (x - 1)) * k[4]
    + At(gray, y * width + x) * k[5]
    + At(gray, y * width + (x + 1)) * k[6]
    + At(gray, (y + 1) * width + (x - 1)) * k[7]
    + At(gray, (y + 1) * width + x) * k[8]
    + At(gray, (y + 1) * width + (x + 1)) * k[9]

\* the pixels the loops y = 1..height-2, x = 1..width-2 visit
Interior(idx, width, height) ==
    LET x == idx % width
        y == idx \div width
    IN  x >= 1 /\ x < width - 1 /\ y >= 1 /\ y < height - 1

gaussianBlur(gray, width, height) ==
    Eager([i \in 1 .. (width * height) |->
        IF Interior(i - 1, width, height)
        THEN MathRound(Convolve(gray, width, (i - 1) % width, (i - 1) \div width, kernel), 16)
        ELSE 0])

sobelEdgeDetection(gray, width, height) ==
    Eager([i \in 1 .. (width * height) |->
        IF Interior(i - 1, width, height)
        THEN LET gx == Convolve(gray, width, (i - 1) % width, (i - 1) \div width, sobelX)
                 gy == Convolve(gray, width, (i - 1) % width, (i - 1) \div width, sobelY)
                 m  == gx * gx + gy * gy
             IN  IF m >= 255 * 255 THEN 255 ELSE RoundSqrt(m)
        ELSE 0])

threshold(edges, t) ==
    Eager([i \in 1 .. Len(edges) |-> IF edges[i] > t THEN 255 ELSE 0])

(***************************************************************************)
(* findContours: boundary tracing over the binary edge map.                *)
(***************************************************************************)
dx == <<1, 1, 0, -1, -1, -1, 0, 1>>
dy == <<0, 1, 1, 1, 0, -1, -1, -1>>

Range(s) == {s[i] : i \in 1 .. Len(s)}

\* the inner for-loop without its test of nx and ny against the bounds: a
\* read outside the buffer is undefined, a read inside it may be of another row
NextDirsUnchecked(binary, width, height, cx, cy, dir) ==
    {i \in 0 .. 7 :
        LET newDir == (dir + 7 + i) % 8
            nx == cx + At(dx, newDir)
            ny == cy + At(dy, newDir)
        IN  /\ ny * width + nx >= 0
            /\ ny * width + nx < Len(binary)
            /\ At(binary, ny * width + nx) = 255}

\* The inner for-loop of the trace: the first i in 0..7 whose direction
\* newDir = (dir + 7 + i) % 8 leads to an in-bounds pixel of value 255.
NextDirs(binary, width, height, cx, cy, dir) ==
    {i \in 0 .. 7 :
        LET newDir == (dir + 7 + i) % 8
            nx == cx + At(dx, newDir)
            ny == cy + At(dy, newDir)
        IN  /\ nx >= 0 /\ nx < width /\ ny >= 0 /\ ny < height
            /\ At(binary, ny * width + nx) = 255}

\* One iteration of the do-while loop after the push: the walker state of
\* the next iteration, or a halted state when the loop exits because no
\* neighbour was found or the walker is back on the start pixel (x, y).
TraceStep(binary, width, height, x, y, s) ==
    IF s.halt THEN s
    ELSE LET found == NextDirs(binary, width, height, s.cx, s.cy, s.dir)
         IN  IF found = {} THEN [s EXCEPT !.halt = TRUE]
             ELSE LET i == CHOOSE j \in found : \A k \in found : j <= k
                      newDir == (s.dir + 7 + i) % 8
                      nx == s.cx + At(dx, newDir)
                      ny == s.cy + At(dy, newDir)
                  IN  IF nx = x /\ ny = y
                      THEN [cx |-> nx, cy |-> ny, dir |-> newDir, halt |-> TRUE]
                      ELSE [cx |-> nx, cy |-> ny, dir |-> newDir, halt |-> FALSE]

\* The n walker states s, step(s), step(step(s)), ... (n >= 1)
RECURSIVE TraceOrbit(_, _, _, _, _, _, _)
TraceOrbit(binary, width, height, x, y, s, n) ==
    IF n = 1 THEN <<s>>
    ELSE LET half == TraceOrbit(binary, width, height, x, y, s, n \div 2)
             rest == TraceOrbit(binary, width, height, x, y,
                         TraceStep(binary, width, height, x, y, half[Len(half)]),
                         n - (n \div 2))
         IN  half \o rest

\* Walker states from the start pixel, extended until the walker halts,
\* revisits a state (from then on it repeats itself) or has made
\* maxAttempts iterations.
RECURSIVE TraceStates(_, _, _, _, _, _)
TraceStates(binary, width, height, x, y, seq) ==
    IF \/ seq[Len(seq)].halt
       \/ Cardinality(Range(seq)) < Len(seq)
       \/ Len(seq) >= maxAttempts
    THEN seq
    ELSE TraceStates(binary, width, height, x, y,
             seq \o TraceOrbit(binary, width, height, x, y,
                        TraceStep(binary, width, height, x, y, seq[Len(seq)]),
                        Len(seq)))

\* Point i of a trace whose walker states are seq: the states repeat with
\* period p from state k on when the walker cycles.
TracePoint(seq, k, p, i) ==
    LET s == IF i <= Len(seq) THEN seq[i] ELSE seq[k + ((i - k) % p)]
    IN  Point(s.cx, s.cy)

\* The contour of n points read off the walker states
TracePoints(seq, k, p, n) ==
    Eager([i \in 1 .. n |-> TracePoint(seq, k, p, i)])

\* seq ends with the first repeated walker state: the index of its
\* earlier occurrence
FirstOccurrence(seq) ==
    CHOOSE j \in 1 .. (Len(seq) - 1) : seq[j] = seq[Len(seq)]

\* The contour read off the explored walker states seq, of which the first
\* live are not halted and the first m are distinct.
ContourOfStates(seq, live, m) ==
    IF live < Len(seq)
    THEN TracePoints(seq, 1, 1, Min(live, maxAttempts))
    ELSE IF m < Len(seq)
    THEN TracePoints(SubSeq(seq, 1, m),
                     FirstOccurrence(SubSeq(seq, 1, m + 1)),
                     m + 1 - FirstOccurrence(SubSeq(seq, 1, m + 1)),
                     maxAttempts)
    ELSE TracePoints(seq, 1, 1, maxAttempts)

\* The contour the do-while loop collects from start pixel (x, y): one point
\* per iteration, until the loop exits or attempts reaches maxAttempts.
TraceContourOf(seq) ==
    ContourOfStates(seq,
                    Cardinality({i \in 1 .. Len(seq) : ~seq[i].halt}),
                    Cardinality(Range(seq)))

TraceContour(binary, width, height, x, y) ==
    TraceContourOf(TraceStates(binary, width, height, x, y,
                       <<[cx |-> x, cy |-> y, dir |-> 0, halt |-> FALSE]>>))

\* The body of the row-major scan for pixel idx; acc holds the visited set,
\* the contours kept so far and (a history) every contour traced so far.
ScanPixel(binary, width, height, idx, acc) ==
    IF /\ Interior(idx, width, height)
       /\ At(binary, idx) = 255
       /\ idx \notin acc.visited
    THEN LET contour == TraceContour(binary, width, height, idx % width, idx \div width)
         IN  [visited  |-> acc.visited \cup {contour[i].y * width + contour[i].x : i \in 1 .. Len(contour)},
              contours |-> IF Len(contour) > minContourLength
                           THEN Append(acc.contours, contour)
                           ELSE acc.contours,
              traces   |-> Append(acc.traces, contour)]
    ELSE acc

\* The scan over pixels lo..hi in order: the first half, then the second
\* half from the state the first half leaves (the test on left makes the
\* first half be computed before the second half starts).
RECURSIVE ScanRange(_, _, _, _, _, _)
ScanRange(binary, width, height, lo, hi, acc) ==
    IF lo > hi THEN acc
    ELSE IF lo = hi THEN ScanPixel(binary, width, height, lo, acc)
    ELSE LET mid == (lo + hi) \div 2
             left == ScanRange(binary, width, height, lo, mid, acc)
         IN  IF Len(left.contours) >= 0
             THEN ScanRange(binary, width, height, mid + 1, hi, left)
             ELSE acc

findContours(binary, width, height) ==
    ScanRange(binary, width, height, 0, width * height - 1,
              [visited |-> {}, contours |-> <<>>, traces |-> <<>>]).contours

\* every contour the scan traced, kept or not, in the order of the traces
TracesOf(binary, width, height) ==
    ScanRange(binary, width, height, 0, width * height - 1,
              [visited |-> {}, contours |-> <<>>, traces |-> <<>>]).traces

(***************************************************************************)
(* Real numbers of the selector are fractions [num, den] with den > 0.     *)
(***************************************************************************)
Frac(n, d) == [num |-> n, den |-> d]

\* p/q > r/s for non-negative p, r and positive q, s, without forming the
\* products p*s and r*q (which may exceed 32 bits)
RECURSIVE FracGreater(_, _, _, _)
FracGreater(p, q, r, s) ==
    IF p \div q # r \div s THEN p \div q > r \div s
    ELSE IF p % q = 0 THEN FALSE
    ELSE IF r % s = 0 THEN TRUE
    ELSE FracGreater(s, r % s, q, p % q)

Greater(a, b) == FracGreater(a.num, a.den, b.num, b.den)

(***************************************************************************)
(* simplifyPolygon (Douglas-Peucker)                                       *)
(***************************************************************************)

\* The square of the distance the source returns.  With t unclamped the
\* nearest point is the foot of the perpendicular on the line through
\* lineStart and lineEnd, at distance |cross| / |lineEnd - lineStart|.
perpendicularDistance(point, lineStart, lineEnd) ==
    LET ddx == lineEnd.x - lineStart.x
        ddy == lineEnd.y - lineStart.y
        cross == (point.x - lineStart.x) * ddy - (point.y - lineStart.y) * ddx
    IN  IF ddx = 0 /\ ddy = 0
        THEN Frac((point.x - lineStart.x) * (point.x - lineStart.x)
                  + (point.y - lineStart.y) * (point.y - lineStart.y), 1)
        ELSE Frac(cross * cross, ddx * ddx + ddy * ddy)

\* The scan for the point of maximum distance: all distances of one scan
\* have the same denominator, so the numerators are compared.  dists[i] is
\* the numerator for points[i + 1].  maxIdx is the first index with the
\* greatest distance (the source replaces the maximum only on dist > maxDist),
\* as an index of the source array; 0 when no distance exceeds 0.
MaxOf(S) == CHOOSE m \in S : \A k \in S : k <= m

FarthestOf(dists, maxNum) ==
    IF maxNum = 0 THEN [maxDist |-> 0, maxIdx |-> 0]
    ELSE [maxDist |-> maxNum,
          maxIdx  |-> CHOOSE i \in 1 .. Len(dists) :
                         /\ dists[i] = maxNum
                         /\ \A j \in 1 .. (i - 1) : dists[j] # maxNum]

Farthest(dists) == FarthestOf(dists, MaxOf(Range(dists) \cup {0}))

PointDistances(points) ==
    Eager([i \in 1 .. (Len(points) - 2) |->
        perpendicularDistance(points[i + 1], points[1], points[Len(points)]).num])

ChordDen(points) ==
    perpendicularDistance(points[1], points[1], points[Len(points)]).den

\* epsilon is a fraction; the distances are squared, so is epsilon here
RECURSIVE simplifyPolygon(_, _)
\* the concatenation that keeps the joint point of both halves
SimplifySplitJoint(points, epsilon, far) ==
    IF FracGreater(far.maxDist, ChordDen(points),
                   epsilon.num * epsilon.num, epsilon.den * epsilon.den)
    THEN simplifyPolygon(SubSeq(points, 1, far.maxIdx + 1), epsilon)
         \o simplifyPolygon(SubSeq(points, far.maxIdx + 1, Len(points)), epsilon)
    ELSE <<points[1], points[Len(points)]>>

SimplifySplit(points, epsilon, far) ==
    IF FracGreater(far.maxDist, ChordDen(points),
                   epsilon.num * epsilon.num, epsilon.den * epsilon.den)
    THEN LET left  == simplifyPolygon(SubSeq(points, 1, far.maxIdx + 1), epsilon)
             right == simplifyPolygon(SubSeq(points, far.maxIdx + 1, Len(points)), epsilon)
         IN  SubSeq(left, 1, Len(left) - 1) \o right
    ELSE <<points[1], points[Len(points)]>>

simplifyPolygon(points, epsilon) ==
    IF Len(points) < 3 THEN points
    ELSE SimplifySplit(points, epsilon, Farthest(PointDistances(points)))

(***************************************************************************)
(* Shoelace area, convexity test, corner ordering                          *)
(***************************************************************************)
RECURSIVE SumTo(_, _)
SumTo(f, n) == IF n = 0 THEN 0 ELSE f[n] + SumTo(f, n - 1)

polygonArea(points) ==
    LET n == Len(points)
        term == [i \in 1 .. n |->
                    LET j == (i % n) + 1
                    IN  points[i].x * points[j].y - points[j].x * points[i].y]
    IN  Frac(Abs(SumTo(term, n)), 2)

\* cross product at vertex i (0-based), as in the loop body
CrossAt(points, i) ==
    LET n == Len(points)
        p0 == points[i + 1]
        p1 == points[((i + 1) % n) + 1]
        p2 == points[((i + 2) % n) + 1]
    IN  (p1.x - p0.x) * (p2.y - p1.y) - (p1.y - p0.y) * (p2.x - p1.x)

\* The loop returns false as soon as a non-zero cross product has the
\* opposite sign of the first non-zero one, that is, exactly when two cross
\* products have opposite signs.
isConvex(points) ==
    LET n == Len(points)
    IN  IF n < 3 THEN FALSE
        ELSE ~ \E i, j \in 0 .. (n - 1) :
                 CrossAt(points, i) > 0 /\ CrossAt(points, j) < 0

\* Array.prototype.sort with a comparator is stable: insertion of each
\* element after the elements that do not compare greater.
RECURSIVE InsertBy(_, _, _)
InsertBy(sorted, e, key) ==
    IF sorted = <<>> THEN <<e>>
    ELSE IF sorted[Len(sorted)][key] <= e[key] THEN Append(sorted, e)
    ELSE Append(InsertBy(SubSeq(sorted, 1, Len(sorted) - 1), e, key), sorted[Len(sorted)])

RECURSIVE SortBy(_, _)
SortBy(points, key) ==
    IF points = <<>> THEN <<>>
    ELSE InsertBy(SortBy(SubSeq(points, 1, Len(points) - 1), key), points[Len(points)], key)

\* orderPoints with the labels of the bottom corners exchanged
orderPointsSwapped(points) ==
    LET sorted == SortBy(points, "y")
        topPoints == SortBy(SubSeq(sorted, 1, 2), "x")
        bottomPoints == SortBy(SubSeq(sorted, 3, 4), "x")
    IN  [topLeft     |-> topPoints[1],
         topRight    |-> topPoints[2],
         bottomRight |-> bottomPoints[1],
         bottomLeft  |-> bottomPoints[2]]


orderPoints(points) ==
    LET sorted == SortBy(points, "y")
        topPoints == SortBy(SubSeq(sorted, 1, 2), "x")
        bottomPoints == SortBy(SubSeq(sorted, 3, 4), "x")
    IN  [topLeft     |-> topPoints[1],
         topRight    |-> topPoints[2],
         bottomRight |-> bottomPoints[2],
         bottomLeft  |-> bottomPoints[1]]

\* points.reduce((best, p) => (better(p, best) ? p : best)): the first point
\* of the greatest key, key given as weights of x and y
RECURSIVE ReduceBest(_, _, _, _)
ReduceBest(points, n, wx, wy) ==
    IF n = 1 THEN points[1]
    ELSE LET best == ReduceBest(points, n - 1, wx, wy)
             pt == points[n]
         IN  IF wx * pt.x + wy * pt.y > wx * best.x + wy * best.y THEN pt ELSE best

\* findCorners taking the first four vertices
findCornersFirst(points) ==
    IF Len(points) <= 4 THEN points ELSE SubSeq(points, 1, 4)

findCorners(points) ==
    IF Len(points) <= 4 THEN points
    ELSE << ReduceBest(points, Len(points), -1, -1),
            ReduceBest(points, Len(points), 1, -1),
            ReduceBest(points, Len(points), 1, 1),
            ReduceBest(points, Len(points), -1, 1) >>

(***************************************************************************)
(* findBestQuadrilateral                                                   *)
(***************************************************************************)

\* distance squared between two points
DistSq(a, b) == (a.x - b.x) * (a.x - b.x) + (a.y - b.y) * (a.y - b.y)

\* areaScore * 0.6 + aspectScore * 0.4 in thousandths, rounded down.
\* widthSq and heightSq are the squares of the quad's width and height.
\* A zero min(width, height) makes aspectRatio Infinity and aspectScore 0.
AreaScore(area, maxArea) ==
    Min((1000 * area.num * maxArea.den) \div (area.den * maxArea.num), 1000)

AspectRatio(widthSq, heightSq) ==
    FloorSqrt((Max(widthSq, heightSq) * 1000000) \div Min(widthSq, heightSq))

AspectScore(widthSq, heightSq) ==
    IF Min(widthSq, heightSq) = 0 THEN 0
    ELSE 1000 - Min(Abs(AspectRatio(widthSq, heightSq) - 1410) \div 2, 1000)

Score(areaScore, aspectScore) == (areaScore * 600 + aspectScore * 400) \div 1000

\* The body of the loop over the contours for one contour: the scored
\* quadrilateral it proposes, or none.  A NaN score (width = height = 0)
\* never passes score > bestScore.
NoCandidate == [ok |-> FALSE, quad |-> Null, score |-> 0]

ScoredQuad(quad, area, maxArea) ==
    LET widthSq  == DistSq(quad.topRight, quad.topLeft)
        heightSq == DistSq(quad.bottomLeft, quad.topLeft)
    IN  IF widthSq = 0 /\ heightSq = 0 THEN NoCandidate
        ELSE [ok |-> TRUE, quad |-> quad,
              score |-> Score(AreaScore(area, maxArea), AspectScore(widthSq, heightSq))]

CandidateOfCorners(corners, minArea, maxArea) ==
    IF /\ Len(corners) = 4
       /\ Greater(polygonArea(corners), minArea)
       /\ Greater(maxArea, polygonArea(corners))
       /\ isConvex(corners)
    THEN ScoredQuad(orderPoints(corners), polygonArea(corners), maxArea)
    ELSE NoCandidate

CandidateOfSimplified(simplified, minArea, maxArea) ==
    IF Len(simplified) >= 4 /\ Len(simplified) <= 8
    THEN CandidateOfCorners(findCorners(simplified), minArea, maxArea)
    ELSE NoCandidate

Candidate(contour, imageWidth, imageHeight) ==
    CandidateOfSimplified(simplifyPolygon(contour, Frac(2 * Len(contour), 100)),
                          Frac(imageWidth * imageHeight, 10),
                          Frac(imageWidth * imageHeight * 95, 100))

\* The loop keeps the first candidate of the greatest score, and only a
\* score above the initial bestScore = 0.
BestOf(cands, bestScore) ==
    IF bestScore = 0 THEN [quad |-> Null, confidence |-> 0]
    ELSE LET i == CHOOSE k \in 1 .. Len(cands) :
                     /\ cands[k].ok /\ cands[k].score = bestScore
                     /\ \A j \in 1 .. (k - 1) : ~(cands[j].ok /\ cands[j].score = bestScore)
         IN  [quad |-> cands[i].quad, confidence |-> bestScore]

\* the loop taking every scored candidate, whatever bestScore is
BestCandidateLast(cands) ==
    IF \A k \in 1 .. Len(cands) : ~cands[k].ok
    THEN [quad |-> Null, confidence |-> 0]
    ELSE LET i == CHOOSE k \in 1 .. Len(cands) :
                     cands[k].ok /\ \A j \in (k + 1) .. Len(cands) : ~cands[j].ok
         IN  [quad |-> cands[i].quad, confidence |-> cands[i].score]

BestCandidate(cands) ==
    BestOf(cands, MaxOf({cands[k].score : k \in 1 .. Len(cands)} \cup {0}))

findBestQuadrilateral(contours, imageWidth, imageHeight) ==
    BestCandidate(Eager([c \in 1 .. Len(contours) |->
                      Candidate(contours[c], imageWidth, imageHeight)]))

(***************************************************************************)
(* Stability tracker                                                       *)
(***************************************************************************)
Corners(q) == <<q.topLeft, q.topRight, q.bottomRight, q.bottomLeft>>

\* quadsClose with the test dist >= tolerance
quadsCloseStrict(q1, q2, tolerance) ==
    \A i \in 1 .. 4 :
        ~(DistSq(Corners(q1)[i], Corners(q2)[i]) >= tolerance * tolerance)

\* dist > tolerance compared through the squares
quadsClose(q1, q2, tolerance) ==
    \A i \in 1 .. 4 :
        ~(DistSq(Corners(q1)[i], Corners(q2)[i]) > tolerance * tolerance)

\* previousQuads.slice(-n)
SliceLast(quads, n) ==
    IF Len(quads) <= n THEN quads ELSE SubSeq(quads, Len(quads) - n + 1, Len(quads))

\* isStable answering from one entry fewer than STABILITY_THRESHOLD
isStableEarly(quad, quads) ==
    IF Len(quads) < STABILITY_THRESHOLD - 1 THEN FALSE
    ELSE \A i \in 1 .. Len(SliceLast(quads, STABILITY_THRESHOLD)) :
             quadsClose(quad, SliceLast(quads, STABILITY_THRESHOLD)[i], STABILITY_TOLERANCE)

\* isStable comparing with the last STABILITY_THRESHOLD - 1 entries only
isStableShort(quad, quads) ==
    IF Len(quads) < STABILITY_THRESHOLD THEN FALSE
    ELSE \A i \in 1 .. Len(SliceLast(quads, STABILITY_THRESHOLD - 1)) :
             quadsClose(quad, SliceLast(quads, STABILITY_THRESHOLD - 1)[i], STABILITY_TOLERANCE)


\* isStable asking for one close quad among the last five
isStableAny(quad, quads) ==
    IF Len(quads) < STABILITY_THRESHOLD THEN FALSE
    ELSE \E i \in 1 .. Len(SliceLast(quads, STABILITY_THRESHOLD)) :
             i < STABILITY_THRESHOLD
             /\ quadsClose(quad, SliceLast(quads, STABILITY_THRESHOLD)[i], STABILITY_TOLERANCE)

isStable(quad, quads) ==
    IF Len(quads) < STABILITY_THRESHOLD THEN FALSE
    ELSE \A i \in 1 .. Len(SliceLast(quads, STABILITY_THRESHOLD)) :
             quadsClose(quad, SliceLast(quads, STABILITY_THRESHOLD)[i], STABILITY_TOLERANCE)

(***************************************************************************)
(* detectDocument                                                          *)
(*                                                                         *)
(* A video is what the call reads of its first argument and of the browser:*)
(*   ctx           whether canvas.getContext('2d') returns a context       *)
(*   sourceWidth, sourceHeight   videoWidth / videoHeight (or width/height)*)
(*   throws        whether drawImage / getImageData / the pipeline throws  *)
(*   scene         the pixels getImageData returns for the analysis canvas *)
(* The source sizes of the model are multiples of the analysis width, so   *)
(* that the corners scaled by inverseScale are integers.                   *)
(***************************************************************************)
NotDetected == [detected |-> FALSE, quad |-> Null, confidence |-> 0, stable |-> FALSE]

\* lines 450-461: the processing pipeline and the selector on one frame
AnalyzeFrame(imageData) ==
    findBestQuadrilateral(
        findContours(
            threshold(
                sobelEdgeDetection(
                    gaussianBlur(toGrayscale(imageData), imageData.width, imageData.height),
                    imageData.width, imageData.height),
                thresholdValue),
            imageData.width, imageData.height),
        imageData.width, imageData.height)

\* a point scaled by inverseScale = 1 / (analyzeWidth / sourceWidth)
ScalePoint(pt, sourceWidth, analyzeWidth) ==
    Point((pt.x * sourceWidth) \div analyzeWidth, (pt.y * sourceWidth) \div analyzeWidth)

ScaleQuad(q, sourceWidth, analyzeWidth) ==
    [topLeft     |-> ScalePoint(q.topLeft, sourceWidth, analyzeWidth),
     topRight    |-> ScalePoint(q.topRight, sourceWidth, analyzeWidth),
     bottomRight |-> ScalePoint(q.bottomRight, sourceWidth, analyzeWidth),
     bottomLeft  |-> ScalePoint(q.bottomLeft, sourceWidth, analyzeWidth)]

\* the push without the trim
PushQuadNoTrim(quads, quad) == Append(quads, quad)

\* a trim that keeps one quad too few
PushQuadShort(quads, quad) ==
    IF Len(Append(quads, quad)) > STABILITY_THRESHOLD * 2
    THEN SliceLast(Append(quads, quad), STABILITY_THRESHOLD - 1)
    ELSE Append(quads, quad)

\* previousQuads.push(quad) and the trim

PushQuad(quads, quad) ==
    IF Len(Append(quads, quad)) > STABILITY_THRESHOLD * 2
    THEN SliceLast(Append(quads, quad), STABILITY_THRESHOLD)
    ELSE Append(quads, quad)

\* lines 463-485: what the call returns and leaves in previousQuads, given
\* the selector's answer best for the frame
\* Track reporting, for a frame without quad, the stability of the history
TrackStale(best, sourceWidth, analyzeWidth, quads) ==
    IF best.quad = Null
    THEN [threw |-> FALSE,
          ret   |-> [NotDetected EXCEPT !.stable = Len(quads) >= STABILITY_THRESHOLD],
          quads |-> <<>>]
    ELSE LET quad == ScaleQuad(best.quad, sourceWidth, analyzeWidth)
         IN  [threw |-> FALSE,
              ret   |-> [detected |-> TRUE, quad |-> quad,
                         confidence |-> best.confidence,
                         stable |-> isStable(quad, PushQuad(quads, quad))],
              quads |-> PushQuad(quads, quad)]


Track(best, sourceWidth, analyzeWidth, quads) ==
    IF best.quad = Null
    THEN [threw |-> FALSE, ret |-> NotDetected, quads |-> <<>>]
    ELSE LET quad == ScaleQuad(best.quad, sourceWidth, analyzeWidth)
         IN  [threw |-> FALSE,
              ret   |-> [detected |-> TRUE, quad |-> quad,
                         confidence |-> best.confidence,
                         stable |-> isStable(quad, PushQuad(quads, quad))],
              quads |-> PushQuad(quads, quad)]

\* The try block.  best is the selector's answer for the video's frame.
TryDetect(video, best, analyzeWidth, quads) ==
    IF ~video.ctx
    THEN [threw |-> FALSE, ret |-> NotDetected, quads |-> quads]
    ELSE IF video.sourceWidth = 0 \/ video.sourceHeight = 0
    THEN [threw |-> FALSE, ret |-> NotDetected, quads |-> quads]
    ELSE IF video.throws
    THEN [threw |-> TRUE, ret |-> Null, quads |-> quads]
    ELSE Track(best, video.sourceWidth, analyzeWidth, quads)

\* The catch block: an exception of the try block becomes "not detected"
\* detectDocument without its catch block
CatchDetectNone(outcome) == outcome


CatchDetect(outcome) ==
    IF outcome.threw
    THEN [threw |-> FALSE, ret |-> NotDetected, quads |-> outcome.quads]
    ELSE outcome

(***************************************************************************)
(* enhanceDocument and applySharpen                                        *)
(*                                                                         *)
(* An image is [width, height, data], data a sequence of pixels            *)
(* <<r, g, b, a>> in row-major order.  The real numbers of the first pass  *)
(* are exact rationals [num, den] in lowest terms with den > 0.            *)
(***************************************************************************)
RECURSIVE GCD(_, _)
GCD(a, b) == IF b = 0 THEN a ELSE GCD(b, a % b)

Rat(n, d) == [num |-> n \div GCD(Abs(n), d), den |-> d \div GCD(Abs(n), d)]
RatOfInt(i) == [num |-> i, den |-> 1]
RatAdd(a, b) ==
    Rat(a.num * (b.den \div GCD(a.den, b.den)) + b.num * (a.den \div GCD(a.den, b.den)),
        (a.den \div GCD(a.den, b.den)) * b.den)
RatSub(a, b) == RatAdd(a, [num |-> 0 - b.num, den |-> b.den])
RatMul(a, b) ==
    Rat((a.num \div GCD(Abs(a.num), b.den)) * (b.num \div GCD(Abs(b.num), a.den)),
        (a.den \div GCD(Abs(b.num), a.den)) * (b.den \div GCD(Abs(a.num), b.den)))
RatLess(a, b) ==
    a.num * (b.den \div GCD(a.den, b.den)) < b.num * (a.den \div GCD(a.den, b.den))
\* Math.round: the nearest integer, halves upwards
RatRound(a) == (a.num \div a.den) + (IF 2 * (a.num % a.den) >= a.den THEN 1 ELSE 0)

\* Math.max(0, Math.min(255, v))
Clamp255(v) == Max(0, Min(255, v))

\* a contrast step that does not add the 128 back
AdjustChannelNoRecenter(value, enhanceOptions) ==
    RatMul(RatSub(RatMul(RatOfInt(value), Rat(enhanceOptions.brightness, 100)),
                  RatOfInt(128)),
           Rat(enhanceOptions.contrast, 100))

\* r *= brightnessFactor; r = (r - 128) * ((255 + contrastFactor) / 255) + 128
\* with brightnessFactor = brightness / 100 and
\* (255 + contrastFactor) / 255 = contrast / 100
AdjustChannel(value, enhanceOptions) ==
    RatAdd(RatMul(RatSub(RatMul(RatOfInt(value), Rat(enhanceOptions.brightness, 100)),
                         RatOfInt(128)),
                  Rat(enhanceOptions.contrast, 100)),
           RatOfInt(128))

\* 0.299 * r + 0.587 * g + 0.114 * b
Luminance(rgb) ==
    RatAdd(RatAdd(RatMul(Rat(299, 1000), rgb[1]), RatMul(Rat(587, 1000), rgb[2])),
           RatMul(Rat(114, 1000), rgb[3]))

\* a conversion that turns every mode into grayscale
ConvertModeGray(rgb, mode) == <<Luminance(rgb), Luminance(rgb), Luminance(rgb)>>

\* a conversion whose bw is grayscale
ConvertModeNoBw(rgb, mode) ==
    IF mode \in {"grayscale", "bw"}
    THEN <<Luminance(rgb), Luminance(rgb), Luminance(rgb)>>
    ELSE rgb

\* the colour mode conversion: any mode other than grayscale and bw leaves
\* the channels as they are
ConvertMode(rgb, mode) ==
    IF mode = "bw"
    THEN IF RatLess(RatOfInt(128), Luminance(rgb))
         THEN <<RatOfInt(255), RatOfInt(255), RatOfInt(255)>>
         ELSE <<RatOfInt(0), RatOfInt(0), RatOfInt(0)>>
    ELSE IF mode = "grayscale"
    THEN <<Luminance(rgb), Luminance(rgb), Luminance(rgb)>>
    ELSE rgb

\* the boost of the pixels of luminance strictly between 40 and 180
BrightenShadows(rgb) ==
    IF RatLess(Luminance(rgb), RatOfInt(180)) /\ RatLess(RatOfInt(40), Luminance(rgb))
    THEN LET boost == RatAdd(RatOfInt(1),
                             RatMul(RatSub(RatOfInt(180), Luminance(rgb)), Rat(1, 400)))
         IN  <<RatMul(rgb[1], boost), RatMul(rgb[2], boost), RatMul(rgb[3], boost)>>
    ELSE rgb

\* the body of the first pass for one pixel
EnhancePixel(pixel, enhanceOptions) ==
    LET adjusted == <<AdjustChannel(pixel[1], enhanceOptions),
                      AdjustChannel(pixel[2], enhanceOptions),
                      AdjustChannel(pixel[3], enhanceOptions)>>
        converted == ConvertMode(adjusted, enhanceOptions.mode)
        final == IF enhanceOptions.removeBackground
                 THEN BrightenShadows(converted) ELSE converted
    IN  <<Clamp255(RatRound(final[1])), Clamp255(RatRound(final[2])),
          Clamp255(RatRound(final[3])), pixel[4]>>

sharpenKernel == <<0, -1, 0, -1, 5, -1, 0, -1, 0>>

\* the convolution sum of channel c at pixel (col, row) of image
SharpenSum(image, col, row, c) ==
    LET ch(kx, ky) == image.data[(row + ky) * image.width + (col + kx) + 1][c]
    IN    ch(-1, -1) * sharpenKernel[1] + ch(0, -1) * sharpenKernel[2]
        + ch(1, -1) * sharpenKernel[3] + ch(-1, 0) * sharpenKernel[4]
        + ch(0, 0) * sharpenKernel[5] + ch(1, 0) * sharpenKernel[6]
        + ch(-1, 1) * sharpenKernel[7] + ch(0, 1) * sharpenKernel[8]
        + ch(1, 1) * sharpenKernel[9]

applySharpen(image) ==
    [image EXCEPT !.data =
        [i \in 1 .. Len(image.data) |->
            IF Interior(i - 1, image.width, image.height)
            THEN <<Clamp255(SharpenSum(image, (i - 1) % image.width, (i - 1) \div image.width, 1)),
                   Clamp255(SharpenSum(image, (i - 1) % image.width, (i - 1) \div image.width, 2)),
                   Clamp255(SharpenSum(image, (i - 1) % image.width, (i - 1) \div image.width, 3)),
                   image.data[i][4]>>
            ELSE image.data[i]]]

\* enhanceDocument(canvas, options): the image the canvas holds afterwards
EnhancedImage(image, enhanceOptions) ==
    LET firstPass == [image EXCEPT !.data =
                         [i \in 1 .. Len(image.data) |->
                             EnhancePixel(image.data[i], enhanceOptions)]]
    IN  IF enhanceOptions.sharpen THEN applySharpen(firstPass) ELSE firstPass

(***************************************************************************)
(* applyPerspectiveCorrection                                              *)
(*                                                                         *)
(* The quad has integer corners.  With D = (outWidth - 1) * (outHeight - 1)*)
(* the source coordinates are the exact fractions SrcXNum / D and          *)
(* SrcYNum / D.  A read outside the source buffer is undefined in          *)
(* JavaScript, the interpolated value is then NaN and the clamped byte     *)
(* array stores 0.                                                         *)
(***************************************************************************)
\* what a read outside the buffer gives, apart from every byte value
Undefined == -1
Rejected == [rejected |-> TRUE]
TransparentBlack == <<0, 0, 0, 0>>

\* outputWidth || Math.round(Math.max(width1, width2)), no outputWidth given
OutWidth(quad) ==
    RoundSqrt(Max(DistSq(quad.topRight, quad.topLeft),
                  DistSq(quad.bottomRight, quad.bottomLeft)))

OutHeight(quad) ==
    RoundSqrt(Max(DistSq(quad.bottomLeft, quad.topLeft),
                  DistSq(quad.bottomRight, quad.topRight)))

\* the numerator of the bilinear blend of the four corner coordinates tl, tr,
\* br, bl at output pixel (col, row), over (outWidth - 1) * (outHeight - 1)
BlendNum(tl, tr, br, bl, col, row, outWidth, outHeight) ==
      (outWidth - 1 - col) * (outHeight - 1 - row) * tl
    + col * (outHeight - 1 - row) * tr
    + col * row * br
    + (outWidth - 1 - col) * row * bl

\* srcData[(py * width + px) * 4 + c]
SrcRead(source, px, py, c) ==
    IF py * source.width + px \in 0 .. (source.width * source.height - 1)
    THEN source.data[py * source.width + px + 1][c]
    ELSE Undefined

\* Math.round of the 2x2 interpolation, as the clamped byte array stores it
Interpolate(v00, v10, v01, v11, fxNum, fyNum, den) ==
    IF Undefined \in {v00, v10, v01, v11}
    THEN 0
    ELSE MathRound(  (den - fxNum) * (den - fyNum) * v00
                   + fxNum * (den - fyNum) * v10
                   + (den - fxNum) * fyNum * v01
                   + fxNum * fyNum * v11,
                   den * den)

\* srcX and srcY of output pixel (col, row) as numerators over
\* (outWidth - 1) * (outHeight - 1), and the neighbour indices x0, y0 =
\* Math.floor(srcX), Math.floor(srcY) and x1, y1 = Math.min(x0 + 1, width - 1),
\* Math.min(y0 + 1, height - 1)
SourceCoordinates(source, quad, col, row, outWidth, outHeight) ==
    LET den == (outWidth - 1) * (outHeight - 1)
        srcXNum == BlendNum(quad.topLeft.x, quad.topRight.x, quad.bottomRight.x,
                            quad.bottomLeft.x, col, row, outWidth, outHeight)
        srcYNum == BlendNum(quad.topLeft.y, quad.topRight.y, quad.bottomRight.y,
                            quad.bottomLeft.y, col, row, outWidth, outHeight)
    IN  [srcXNum |-> srcXNum, srcYNum |-> srcYNum,
         x0 |-> srcXNum \div den,
         y0 |-> srcYNum \div den,
         x1 |-> Min((srcXNum \div den) + 1, source.width - 1),
         y1 |-> Min((srcYNum \div den) + 1, source.height - 1)]

\* the output pixel (col, row)
CorrectedPixel(source, quad, col, row, outWidth, outHeight) ==
    LET den == (outWidth - 1) * (outHeight - 1)
        at == SourceCoordinates(source, quad, col, row, outWidth, outHeight)
        srcXNum == at.srcXNum
        srcYNum == at.srcYNum
        x0 == at.x0
        y0 == at.y0
        x1 == at.x1
        y1 == at.y1
    IN  [c \in 1 .. 4 |->
            Interpolate(SrcRead(source, x0, y0, c), SrcRead(source, x1, y0, c),
                        SrcRead(source, x0, y1, c), SrcRead(source, x1, y1, c),
                        srcXNum - x0 * den, srcYNum - y0 * den, den)]

\* what the promise of applyPerspectiveCorrection(sourceCanvas, quad) settles
\* to: createImageData throws for a width or height of 0; with a width or
\* height of 1 the normalised coordinate is 0 / 0 and every read is undefined
CorrectedImage(source, quad) ==
    LET outWidth == OutWidth(quad)
        outHeight == OutHeight(quad)
    IN  IF outWidth = 0 \/ outHeight = 0
        THEN Rejected
        ELSE [width |-> outWidth, height |-> outHeight,
              data |-> [i \in 1 .. outWidth * outHeight |->
                           IF outWidth = 1 \/ outHeight = 1
                           THEN TransparentBlack
                           ELSE CorrectedPixel(source, quad, (i - 1) % outWidth,
                                               (i - 1) \div outWidth,
                                               outWidth, outHeight)]]

(***************************************************************************)
(* Frames and videos fed to detectDocument                                 *)
(***************************************************************************)
White == <<255, 255, 255>>
Black == <<0, 0, 0>>

\* an axis-aligned white rectangle, columns x0..x1 and rows y0..y1, on black
RectangleFrame(width, height, x0, y0, x1, y1) ==
    [width |-> width, height |-> height,
     data  |-> [i \in 1 .. (width * height) |->
                   IF /\ (i - 1) % width >= x0 /\ (i - 1) % width <= x1
                      /\ (i - 1) \div width >= y0 /\ (i - 1) \div width <= y1
                   THEN White ELSE Black]]

\* a frame whose pixels all have the grey level v
UniformFrame(width, height, v) ==
    [width |-> width, height |-> height,
     data  |-> [i \in 1 .. (width * height) |-> <<v, v, v>>]]

\* the size of the analysis canvas of the model's videos
Canvas == [width |-> 20, height |-> 20]

\* the white rectangles shown: columns x0..x1, rows y0..y1 of the canvas
Rectangles ==
    [rect  |-> [x0 |-> 4, y0 |-> 4, x1 |-> 15, y1 |-> 15],
     small |-> [x0 |-> 6, y0 |-> 6, x1 |-> 12, y1 |-> 12]]

RectangleScene(r) ==
    RectangleFrame(Canvas.width, Canvas.height, r.x0, r.y0, r.x1, r.y1)

Scene ==
    [rect   |-> RectangleScene(Rectangles.rect),
     small  |-> RectangleScene(Rectangles.small),
     bright |-> UniformFrame(Canvas.width, Canvas.height, 200),
     dark   |-> UniformFrame(Canvas.width, Canvas.height, 0)]

\* the selector's answer for each scene, computed once
Analysis ==
    [rect   |-> AnalyzeFrame(Scene.rect),
     small  |-> AnalyzeFrame(Scene.small),
     bright |-> AnalyzeFrame(Scene.bright),
     dark   |-> AnalyzeFrame(Scene.dark)]

Video(scene, sourceWidth, sourceHeight) ==
    [ctx |-> TRUE, throws |-> FALSE, scene |-> scene,
     sourceWidth |-> sourceWidth, sourceHeight |-> sourceHeight]

GoodVideos ==
    { Video("rect", 200, 200), Video("small", 200, 200),
      Video("bright", 200, 200), Video("dark", 200, 200) }

FailingVideos ==
    { [Video("rect", 200, 200) EXCEPT !.ctx = FALSE],
      [Video("rect", 200, 200) EXCEPT !.throws = TRUE],
      Video("rect", 0, 200),
      Video("rect", 200, 0) }

Videos == GoodVideos \cup FailingVideos

\* the analysis width the caller passes for the video
AnalyzeWidth(video) == Scene[video.scene].width

(***************************************************************************)
(* State                                                                   *)
(***************************************************************************)
VARIABLES
    previousQuads,  \* the module-level history of accepted quads
    result,         \* what the last detectDocument call returned
    raised,         \* whether the last call let an exception escape
    lastCall,       \* the last call: none, resetDetection or detectDocument(video)
    streak,         \* history variable: the current run of equal detections
    sinceReset,     \* history variable: detectDocument calls since the reset
    phase,          \* history variable: progress through "5 equal, 1 far, 5 equal"
    priorQuads,     \* history variable: previousQuads when the last call began
    untrimmedQuads, \* the history of the same tracker without the trim
    untrimmedStable, \* the stable flag that tracker returned for the last call
    contourSet,     \* the selector's input when it is run on its own
    selected,       \* the selector's answer for contourSet, Null before it ran
    enhCanvas,      \* the image held by the canvas given to enhanceDocument
    enhOptions,     \* the options of the enhanceDocument calls
    enhOriginal,    \* history variable: the image before the first call
    enhBefore,      \* history variable: the image before the last call
    enhPasses,      \* history variable: enhanceDocument calls made so far
    enhRejected,    \* whether the last enhanceDocument promise was rejected
    perspSource,    \* the image of the canvas given to applyPerspectiveCorrection
    perspQuad,      \* the quad given to applyPerspectiveCorrection
    perspResult,    \* what its promise settled to: an image or Rejected, Null before
    scanMounted,    \* whether a ProfessionalScanner is mounted
    scanStep,       \* its step: capture, edit or finalize
    scanCaptureUrl, \* its currentCaptureUrl, Null or the URL of an encoded canvas
    scanPages,      \* the number of its pages
    scanQuad,       \* its detectedQuad
    scanWebcamReady, \* its webcamReady
    scanCapture,    \* where its capture() is: idle, correcting or encoding
    scanLastCapture, \* history variable: how the last capture() ended
    scanPhaseCalls, \* history variable: detectDocument calls of this capture phase
    edgeMap,        \* the binary map findContours is run on when on its own
    keptContours,   \* [contours: what findContours returned for edgeMap], Null before
    everyTrace,     \* history variable: every contour that call traced
    polyPoints,     \* the points simplifyPolygon is called with when on its own
    polyEpsilon,    \* its epsilon, a fraction
    polySimplified, \* [points: what it returned], Null before it ran
    urlStep,        \* the scanner's step, when its blob URLs are followed
    urlCapture,     \* its currentCaptureUrl, Null or a blob URL
    urlPages,       \* the processedUrl of each of its pages
    urlIndex,       \* its currentPageIndex
    urlRevoked,     \* the blob URLs that were given to URL.revokeObjectURL
    urlMade,        \* history variable: blob URLs created so far
    urlClosed,      \* whether the scanner was closed
    autoCapture,    \* the scanner's autoCapture switch, when its countdown is followed
    autoCaptureCountdown, \* its autoCaptureCountdown: Null or [value: 3, 2 or 1]
    autoCaptureInterval,  \* the timer behind autoCaptureIntervalRef: Null or [due: ms]
    loopDue,        \* the running detect loop: Null or [due: ms to its next detection]
    loopCountdown,  \* the autoCaptureCountdown its handleAutoCapture closed over
    loopStable,     \* whether its last detection was stable with confidence > 0.6
    countdownStarts, \* history variable: timers started since the countdown was null
    captureCalls    \* history variable: calls of capture() by the countdown

trackerVars == <<previousQuads, result, raised, lastCall, streak, sinceReset, phase,
                 priorQuads, untrimmedQuads, untrimmedStable>>
selectorVars == <<contourSet, selected>>
enhancerVars == <<enhCanvas, enhOptions, enhOriginal, enhBefore, enhPasses, enhRejected>>

correctorVars == <<perspSource, perspQuad, perspResult>>

scannerVars == <<scanMounted, scanStep, scanCaptureUrl, scanPages, scanQuad,
                 scanWebcamReady, scanCapture, scanLastCapture, scanPhaseCalls>>

tracerVars == <<edgeMap, keptContours, everyTrace>>
simplifierVars == <<polyPoints, polyEpsilon, polySimplified>>

urlVars == <<urlStep, urlCapture, urlPages, urlIndex, urlRevoked, urlMade, urlClosed>>
countdownVars == <<autoCapture, autoCaptureCountdown, autoCaptureInterval, loopDue,
                   loopCountdown, loopStable, countdownStarts, captureCalls>>

vars == <<trackerVars, selectorVars, enhancerVars, correctorVars, scannerVars,
          tracerVars, simplifierVars, urlVars, countdownVars>>

\* what the actions of one component leave alone
notTrackerVars == <<selectorVars, enhancerVars, correctorVars, scannerVars,
    tracerVars, simplifierVars, urlVars, countdownVars>>
notSelectorVars == <<trackerVars, enhancerVars, correctorVars, scannerVars,
    tracerVars, simplifierVars, urlVars, countdownVars>>
notEnhancerVars == <<trackerVars, selectorVars, correctorVars, scannerVars,
    tracerVars, simplifierVars, urlVars, countdownVars>>
notCorrectorVars == <<trackerVars, selectorVars, enhancerVars, scannerVars,
    tracerVars, simplifierVars, urlVars, countdownVars>>
notScannerVars == <<selectorVars, enhancerVars, correctorVars,
    tracerVars, simplifierVars, urlVars, countdownVars>>
notTracerVars == <<trackerVars, selectorVars, enhancerVars, correctorVars, scannerVars,
    simplifierVars, urlVars, countdownVars>>
notUrlVars == <<trackerVars, selectorVars, enhancerVars, correctorVars, scannerVars,
    tracerVars, simplifierVars, countdownVars>>
notCountdownVars == <<trackerVars, selectorVars, enhancerVars, correctorVars, scannerVars,
    tracerVars, simplifierVars, urlVars>>
notSimplifierVars == <<trackerVars, selectorVars, enhancerVars, correctorVars, scannerVars,
    tracerVars, urlVars, countdownVars>>

MaxStreak == 12

NoStreak == [quad |-> Null, n |-> 0, fromEmpty |-> FALSE]
NoPhase == [ref |-> Null, stage |-> 0]

\* some corner of q1 is more than STABILITY_TOLERANCE away from that of q2
FarInOneCorner(q1, q2) ==
    \E i \in 1 .. 4 :
        DistSq(Corners(q1)[i], Corners(q2)[i]) > STABILITY_TOLERANCE * STABILITY_TOLERANCE

\* the run of consecutive successful detections of one and the same quad,
\* and whether the history was empty when the run began
NextStreak(ret, before) ==
    IF ~ret.detected THEN NoStreak
    ELSE IF streak.n > 0 /\ streak.quad = ret.quad
    THEN [streak EXCEPT !.n = Min(streak.n + 1, MaxStreak)]
    ELSE [quad |-> ret.quad, n |-> 1, fromEmpty |-> before = <<>>]

\* run is the length of the run of equal detections the call ends.
\* stage 1..5: that many (5: or more) consecutive detections of ref;
\* stage 6: then one detection far from ref in a corner;
\* stage 7..11: then stage - 6 consecutive detections of ref again.
NextPhase(ret, run) ==
    IF ~ret.detected THEN NoPhase
    ELSE IF phase.stage \in 1 .. 4 /\ ret.quad = phase.ref
    THEN [phase EXCEPT !.stage = phase.stage + 1]
    ELSE IF phase.stage \in {5, 11} /\ ret.quad = phase.ref
    THEN [phase EXCEPT !.stage = 5]
    ELSE IF phase.stage = 5 /\ FarInOneCorner(ret.quad, phase.ref)
    THEN [phase EXCEPT !.stage = 6]
    ELSE IF phase.stage \in 6 .. 10 /\ ret.quad = phase.ref
    THEN [phase EXCEPT !.stage = phase.stage + 1]
    ELSE [ref |-> ret.quad, stage |-> Min(run, STABILITY_THRESHOLD)]

InitTracker ==
    /\ previousQuads = <<>>
    /\ result = Null
    /\ raised = FALSE
    /\ lastCall = [op |-> "none"]
    /\ streak = NoStreak
    /\ sinceReset = STABILITY_THRESHOLD
    /\ phase = NoPhase
    /\ priorQuads = <<>>
    /\ untrimmedQuads = <<>>
    /\ untrimmedStable = FALSE

\* the components that a specification does not run
\* no scanner whose blob URLs are followed
IdleUrls ==
    /\ urlStep = "capture"
    /\ urlCapture = Null
    /\ urlPages = <<>>
    /\ urlIndex = 0
    /\ urlRevoked = {}
    /\ urlMade = 0
    /\ urlClosed = FALSE

\* no scanner whose countdown is followed
IdleCountdown ==
    /\ autoCapture = FALSE
    /\ autoCaptureCountdown = Null
    /\ autoCaptureInterval = Null
    /\ loopDue = Null
    /\ loopCountdown = Null
    /\ loopStable = FALSE
    /\ countdownStarts = 0
    /\ captureCalls = 0

\* simplifyPolygon is not run on its own
IdleSimplifier ==
    /\ polyPoints = Null
    /\ polyEpsilon = Null
    /\ polySimplified = Null

IdleTracer ==
    /\ edgeMap = Null
    /\ keptContours = Null
    /\ everyTrace = Null

IdleSelector ==
    /\ contourSet = <<>>
    /\ selected = Null

IdleEnhancer ==
    /\ enhCanvas = Null
    /\ enhOptions = Null
    /\ enhOriginal = Null
    /\ enhBefore = Null
    /\ enhPasses = 0
    /\ enhRejected = FALSE

IdleCorrector ==
    /\ perspSource = Null
    /\ perspQuad = Null
    /\ perspResult = Null

NoCapture ==
    [pc |-> "idle", quad |-> Null, canvas |-> "none", correction |-> "none",
     stale |-> FALSE]

\* no ProfessionalScanner is mounted
IdleScanner ==
    /\ scanMounted = FALSE
    /\ scanStep = "capture"
    /\ scanCaptureUrl = Null
    /\ scanPages = 0
    /\ scanQuad = Null
    /\ scanWebcamReady = FALSE
    /\ scanCapture = NoCapture
    /\ scanLastCapture = Null
    /\ scanPhaseCalls = 0

Init ==
    /\ InitTracker
    /\ IdleUrls
    /\ IdleCountdown
    /\ IdleTracer
    /\ IdleSimplifier
    /\ IdleSelector
    /\ IdleEnhancer
    /\ IdleCorrector
    /\ IdleScanner

\* the same call on the tracker that never trims: lines 479-481 left out.
\* outcome is what the call did with the trimmed history: the path taken and
\* the quad found do not depend on the history, and a call leaves the
\* trimmed history empty exactly when it leaves the untrimmed one empty.
UntrimmedDetect(outcome, quads) ==
    IF outcome.threw
    THEN [quads |-> quads, stable |-> FALSE]
    ELSE IF outcome.ret.detected
    THEN [quads |-> Append(quads, outcome.ret.quad),
          stable |-> isStable(outcome.ret.quad, Append(quads, outcome.ret.quad))]
    ELSE [quads |-> IF outcome.quads = <<>> THEN <<>> ELSE quads,
          stable |-> FALSE]

\* what a call of detectDocument on video leaves behind, outcome being what
\* its try and catch blocks came to
RecordCall(video, outcome) ==
    /\ previousQuads' = outcome.quads
    /\ priorQuads' = previousQuads
    /\ untrimmedQuads' = UntrimmedDetect(outcome, untrimmedQuads).quads
    /\ untrimmedStable' = UntrimmedDetect(outcome, untrimmedQuads).stable
    /\ result' = outcome.ret
    /\ raised' = outcome.threw
    /\ lastCall' = [op |-> "detectDocument", video |-> video]
    /\ streak' = IF outcome.threw THEN NoStreak ELSE NextStreak(outcome.ret, previousQuads)
    /\ sinceReset' = Min(sinceReset + 1, STABILITY_THRESHOLD)
    /\ phase' = IF outcome.threw THEN NoPhase
                     ELSE NextPhase(outcome.ret, NextStreak(outcome.ret, previousQuads).n)

\* detectDocument(video, analyzeWidth): the try block, then the catch block
DetectCall(video) ==
    LET outcome == CatchDetect(TryDetect(video, Analysis[video.scene],
                                         AnalyzeWidth(video), previousQuads))
    IN  /\ Len(untrimmedQuads) < MaxStreak
        /\ RecordCall(video, outcome)

\* a call of detectDocument with nothing else going on
detectDocument(video) ==
    /\ DetectCall(video)
    /\ UNCHANGED notTrackerVars

\* resetDetection leaving the history as it is
resetDetectionKeep ==
    /\ UNCHANGED previousQuads
    /\ result' = Null
    /\ raised' = FALSE
    /\ lastCall' = [op |-> "resetDetection"]
    /\ streak' = NoStreak
    /\ sinceReset' = 0
    /\ phase' = NoPhase
    /\ priorQuads' = previousQuads
    /\ untrimmedQuads' = <<>>
    /\ untrimmedStable' = FALSE
    /\ UNCHANGED notTrackerVars


\* resetDetection(): previousQuads = []
ResetCall ==
    /\ previousQuads' = <<>>
    /\ result' = Null
    /\ raised' = FALSE
    /\ lastCall' = [op |-> "resetDetection"]
    /\ streak' = NoStreak
    /\ sinceReset' = 0
    /\ phase' = NoPhase
    /\ priorQuads' = previousQuads
    /\ untrimmedQuads' = <<>>
    /\ untrimmedStable' = FALSE

\* a call of resetDetection with nothing else going on
resetDetection ==
    /\ ResetCall
    /\ UNCHANGED notTrackerVars

Detect == \E video \in Videos : detectDocument(video)

Next ==
    \/ Detect
    \/ resetDetection

Spec == Init /\ [][Next]_vars

(***************************************************************************)
(* The selector on its own: findBestQuadrilateral applied to contours that *)
(* are closed 8-connected pixel paths, as findContours collects them.      *)
(***************************************************************************)
SelectorFrame == [width |-> 24, height |-> 24]

\* the pixels of the digital segment from p to q, without q
Segment(p, q) ==
    LET n == Max(Abs(q.x - p.x), Abs(q.y - p.y))
    IN  [k \in 1 .. n |-> Point(p.x + MathRound((k - 1) * (q.x - p.x), n),
                                p.y + MathRound((k - 1) * (q.y - p.y), n))]

\* the boundary path a -> b -> c -> d -> back to the pixel before a
Outline(a, b, c, d) ==
    Segment(a, b) \o Segment(b, c) \o Segment(c, d) \o Segment(d, a)

\* a is on the top side, b on the right side, c on the bottom side and d on
\* the left side of the square with corners (2, 2) and (21, 21)
Marks == {2, 8, 15, 21}

Outlines ==
    { Outline(Point(a, 2), Point(21, b), Point(c, 21), Point(2, d)) :
          a \in Marks, b \in Marks, c \in Marks, d \in Marks }

\* findContours keeps the contours of more than minContourLength points
ContourSets == { <<o>> : o \in {k \in Outlines : Len(k) > minContourLength} }

InitSelector ==
    /\ InitTracker
    /\ IdleUrls
    /\ IdleCountdown
    /\ IdleTracer
    /\ IdleSimplifier
    /\ contourSet \in ContourSets
    /\ selected = Null
    /\ IdleEnhancer
    /\ IdleCorrector
    /\ IdleScanner

SelectQuad ==
    /\ selected = Null
    /\ selected' = findBestQuadrilateral(contourSet, SelectorFrame.width, SelectorFrame.height)
    /\ UNCHANGED contourSet
    /\ UNCHANGED notSelectorVars

NextSelector == SelectQuad

SpecSelector == InitSelector /\ [][NextSelector]_vars

(***************************************************************************)
(* The selector's area filter: findBestQuadrilateral applied, in a 40x30    *)
(* image, to the boundary paths of long flat rectangles whose areas lie    *)
(* around 10% of the image area.                                           *)
(***************************************************************************)
AreaFrame == [width |-> 40, height |-> 30]

RectangleOutline(x0, y0, x1, y1) ==
    Outline(Point(x0, y0), Point(x1, y0), Point(x1, y1), Point(x0, y1))

AreaContourSets ==
    { <<RectangleOutline(x0, y0, x0 + w, y0 + h)>> :
          x0 \in {0, 4}, y0 \in {0, 10}, w \in 28 .. 34, h \in 3 .. 5 }

InitAreaFilter ==
    /\ InitTracker
    /\ IdleUrls
    /\ IdleCountdown
    /\ IdleTracer
    /\ IdleSimplifier
    /\ contourSet \in AreaContourSets
    /\ selected = Null
    /\ IdleEnhancer
    /\ IdleCorrector
    /\ IdleScanner

SelectInAreaFrame ==
    /\ selected = Null
    /\ selected' = findBestQuadrilateral(contourSet, AreaFrame.width, AreaFrame.height)
    /\ UNCHANGED contourSet
    /\ UNCHANGED notSelectorVars

NextAreaFilter == SelectInAreaFrame

SpecAreaFilter == InitAreaFilter /\ [][NextAreaFilter]_vars

(***************************************************************************)
(* The enhancer on its own: enhanceDocument called again and again with    *)
(* the same options on one canvas                                          *)
(***************************************************************************)
MaxPasses == 2

ValidModes == {"color", "grayscale", "bw"}

\* the modes a caller can pass at run time: the three of the type and one
\* that the type does not have
Modes == ValidModes \union {"sepia"}

EnhancementOptions ==
    [mode : Modes, brightness : {100, 50}, contrast : {100, 200},
     sharpen : BOOLEAN, removeBackground : BOOLEAN]

Palette ==
    { <<0, 0, 0, 255>>, <<255, 255, 255, 255>>, <<100, 100, 100, 255>>,
      <<200, 100, 50, 255>>, <<130, 130, 130, 255>>, <<30, 60, 200, 128>> }

\* a 3x3 image: one interior pixel inside a ring of equal pixels
RingImage(centre, ring) ==
    [width |-> 3, height |-> 3,
     data |-> [i \in 1 .. 9 |-> IF i = 5 THEN centre ELSE ring]]

EnhancerImages == { RingImage(centre, ring) : centre \in Palette, ring \in Palette }

InitEnhancer ==
    /\ InitTracker
    /\ IdleUrls
    /\ IdleCountdown
    /\ IdleTracer
    /\ IdleSimplifier
    /\ IdleSelector
    /\ enhCanvas \in EnhancerImages
    /\ enhOptions \in EnhancementOptions
    /\ enhOriginal = enhCanvas
    /\ enhBefore = Null
    /\ enhPasses = 0
    /\ enhRejected = FALSE
    /\ IdleCorrector
    /\ IdleScanner

\* await enhanceDocument(canvas, options): no path of the function rejects
enhanceDocument ==
    /\ enhPasses < MaxPasses
    /\ enhCanvas' = EnhancedImage(enhCanvas, enhOptions)
    /\ enhBefore' = enhCanvas
    /\ enhPasses' = enhPasses + 1
    /\ enhRejected' = FALSE
    /\ UNCHANGED <<enhOptions, enhOriginal>>
    /\ UNCHANGED notEnhancerVars

NextEnhancer == enhanceDocument

SpecEnhancer == InitEnhancer /\ [][NextEnhancer]_vars

(***************************************************************************)
(* Perspective correction on its own: one source canvas, one quad          *)
(***************************************************************************)
\* the quad over the whole source, its corners on the outer edges of the
\* image or on the centres of its corner pixels
EdgeQuad(source) ==
    [topLeft |-> Point(0, 0), topRight |-> Point(source.width, 0),
     bottomRight |-> Point(source.width, source.height),
     bottomLeft |-> Point(0, source.height)]

PixelQuad(source) ==
    [topLeft |-> Point(0, 0), topRight |-> Point(source.width - 1, 0),
     bottomRight |-> Point(source.width - 1, source.height - 1),
     bottomLeft |-> Point(0, source.height - 1)]

\* a quad whose four corners are one point
PointQuad ==
    [topLeft |-> Point(1, 1), topRight |-> Point(1, 1),
     bottomRight |-> Point(1, 1), bottomLeft |-> Point(1, 1)]

FullQuads(source) == {EdgeQuad(source), PixelQuad(source)}

\* source canvases of 2..5 by 2..5 pixels: one colour, a horizontal ramp,
\* a checkerboard and a diagonal ramp
SourcePixel(pattern, col, row) ==
    CASE pattern = "flat" -> <<200, 100, 50, 255>>
      [] pattern = "ramp" -> <<40 * col, 40 * col, 40 * col, 255>>
      [] pattern = "checker" -> IF (col + row) % 2 = 0 THEN <<255, 255, 255, 255>>
                                                       ELSE <<0, 0, 0, 255>>
      [] OTHER -> <<30 * col, 30 * row, 20 * (col + row), 255>>

SourceImage(pattern, width, height) ==
    [width |-> width, height |-> height,
     data |-> [i \in 1 .. width * height |->
                  SourcePixel(pattern, (i - 1) % width, (i - 1) \div width)]]

SourceImages ==
    { SourceImage(pattern, width, height) :
          pattern \in {"flat", "ramp", "checker", "diagonal"},
          width \in 2 .. 5, height \in 2 .. 5 }

InitCorrector ==
    /\ InitTracker
    /\ IdleUrls
    /\ IdleCountdown
    /\ IdleTracer
    /\ IdleSimplifier
    /\ IdleSelector
    /\ IdleEnhancer
    /\ perspSource \in SourceImages
    /\ perspQuad \in FullQuads(perspSource) \union {PointQuad}
    /\ perspResult = Null
    /\ IdleScanner

\* await applyPerspectiveCorrection(sourceCanvas, quad)
applyPerspectiveCorrection ==
    /\ perspResult = Null
    /\ perspResult' = CorrectedImage(perspSource, perspQuad)
    /\ UNCHANGED <<perspSource, perspQuad>>
    /\ UNCHANGED notCorrectorVars

NextCorrector == applyPerspectiveCorrection

SpecCorrector == InitCorrector /\ [][NextCorrector]_vars

(***************************************************************************)
(* ProfessionalScanner: the component on top of the tracker.  The steps of *)
(* the async capture() are its parts between two awaits.  The effect of    *)
(* lines 157-161 returns fullCleanup as its cleanup with fullCleanup as    *)
(* its dependency, and fullCleanup depends on currentCaptureUrl and pages: *)
(* React runs the cleanup on unmount and after every render that changed   *)
(* one of the two.                                                         *)
(***************************************************************************)
MaxPages == 2
MaxPhaseCalls == 5

\* what the camera shows: a document, no document, a failing frame grab
ScannerVideos ==
    { Video("rect", 200, 200), Video("dark", 200, 200),
      [Video("rect", 200, 200) EXCEPT !.throws = TRUE] }

\* fullCleanup without its first line
fullCleanupNoReset ==
    /\ UNCHANGED trackerVars
    /\ scanWebcamReady' = FALSE

\* fullCleanup(): resetDetection(), stop the loop and the camera
fullCleanup ==
    /\ ResetCall
    /\ scanWebcamReady' = FALSE

\* what the promise of applyPerspectiveCorrection(captureCanvas, scaledQuad)
\* settles to; outputContext: whether the output canvas got a 2D context
CorrectionOutcome(quad, outputContext) ==
    IF ~outputContext \/ OutWidth(quad) = 0 \/ OutHeight(quad) = 0
    THEN Rejected
    ELSE [width |-> OutWidth(quad), height |-> OutHeight(quad)]

\* capture() without the try/catch around the correction
CatchCorrectionNone(settled) ==
    IF settled = Rejected
    THEN [aborted |-> TRUE, canvas |-> "none"]
    ELSE [aborted |-> FALSE, canvas |-> "corrected"]

\* try { finalCanvas = await applyPerspectiveCorrection(...) } catch { }
CatchCorrection(settled) ==
    IF settled = Rejected
    THEN [aborted |-> FALSE, canvas |-> "uncorrected"]
    ELSE [aborted |-> FALSE, canvas |-> "corrected"]

\* blobToObjectUrl(await canvasToJpegBlob(finalCanvas, quality))
CaptureUrlOf(canvas) == [canvas |-> canvas]

InitScanner ==
    /\ InitTracker
    /\ IdleUrls
    /\ IdleCountdown
    /\ IdleTracer
    /\ IdleSimplifier
    /\ IdleSelector
    /\ IdleEnhancer
    /\ IdleCorrector
    /\ IdleScanner

\* the component is mounted: the initial values of its useState calls
Mount ==
    /\ ~scanMounted
    /\ scanMounted' = TRUE
    /\ scanStep' = "capture"
    /\ scanCaptureUrl' = Null
    /\ scanPages' = 0
    /\ scanQuad' = Null
    /\ scanWebcamReady' = FALSE
    /\ scanPhaseCalls' = 0
    /\ UNCHANGED <<scanCapture, scanLastCapture>>
    /\ UNCHANGED trackerVars
    /\ UNCHANGED notScannerVars

\* the cleanup of the effect on unmount; a capture() in flight goes on
Unmount ==
    /\ scanMounted
    /\ fullCleanup
    /\ scanMounted' = FALSE
    /\ scanStep' = "capture"
    /\ scanCaptureUrl' = Null
    /\ scanPages' = 0
    /\ scanQuad' = Null
    /\ scanPhaseCalls' = 0
    /\ scanCapture' = IF scanCapture.pc = "idle" THEN scanCapture
                       ELSE [scanCapture EXCEPT !.stale = TRUE]
    /\ UNCHANGED scanLastCapture
    /\ UNCHANGED notScannerVars

\* the close button
onCloseSafe ==
    /\ scanMounted
    /\ fullCleanup
    /\ UNCHANGED <<scanMounted, scanStep, scanCaptureUrl, scanPages, scanQuad,
                   scanCapture, scanLastCapture, scanPhaseCalls>>
    /\ UNCHANGED notScannerVars

\* the Webcam element, rendered in the capture step without a capture,
\* delivers its stream
handleUserMedia ==
    /\ scanMounted
    /\ scanStep = "capture"
    /\ scanCaptureUrl = Null
    /\ ~scanWebcamReady
    /\ scanWebcamReady' = TRUE
    /\ UNCHANGED <<scanMounted, scanStep, scanCaptureUrl, scanPages, scanQuad,
                   scanCapture, scanLastCapture, scanPhaseCalls>>
    /\ UNCHANGED trackerVars
    /\ UNCHANGED notScannerVars

\* one round of detectLoop that is due
detectLoop(video) ==
    /\ scanMounted
    /\ scanStep = "capture"
    /\ scanWebcamReady
    /\ scanCaptureUrl = Null
    /\ scanPhaseCalls < MaxPhaseCalls
    /\ DetectCall(video)
    /\ scanQuad' = result'.quad
    /\ scanPhaseCalls' = scanPhaseCalls + 1
    /\ UNCHANGED <<scanMounted, scanStep, scanCaptureUrl, scanPages,
                   scanWebcamReady, scanCapture, scanLastCapture>>
    /\ UNCHANGED notScannerVars

DetectLoop == \E video \in ScannerVideos : detectLoop(video)

\* capture() up to its first await; one capture() at a time
capture ==
    /\ scanMounted
    /\ scanStep = "capture"
    /\ scanCaptureUrl = Null
    /\ scanWebcamReady
    /\ scanCapture.pc = "idle"
    /\ scanCapture' =
           IF scanQuad # Null
           THEN [NoCapture EXCEPT !.pc = "correcting", !.quad = scanQuad]
           ELSE [NoCapture EXCEPT !.pc = "encoding", !.canvas = "uncorrected",
                                  !.correction = "skipped"]
    /\ UNCHANGED <<scanMounted, scanStep, scanCaptureUrl, scanPages, scanQuad,
                   scanWebcamReady, scanLastCapture, scanPhaseCalls>>
    /\ UNCHANGED trackerVars
    /\ UNCHANGED notScannerVars

\* the promise of applyPerspectiveCorrection settles and capture() goes on
CorrectionSettles ==
    /\ scanCapture.pc = "correcting"
    /\ \E outputContext \in BOOLEAN :
           LET settled == CorrectionOutcome(scanCapture.quad, outputContext)
               settledAs == IF settled = Rejected THEN "rejected" ELSE "resolved"
           IN  IF CatchCorrection(settled).aborted
               THEN /\ scanCapture' = NoCapture
                    /\ scanLastCapture' = [correction |-> settledAs, url |-> Null]
               ELSE /\ scanCapture' = [scanCapture EXCEPT
                                          !.pc = "encoding",
                                          !.canvas = CatchCorrection(settled).canvas,
                                          !.correction = settledAs]
                    /\ UNCHANGED scanLastCapture
    /\ UNCHANGED <<scanMounted, scanStep, scanCaptureUrl, scanPages, scanQuad,
                   scanWebcamReady, scanPhaseCalls>>
    /\ UNCHANGED trackerVars
    /\ UNCHANGED notScannerVars

\* the blob is there: setCurrentCaptureUrl(url); on a mounted component the
\* render changes currentCaptureUrl and React runs the cleanup
CaptureDone ==
    /\ scanCapture.pc = "encoding"
    /\ scanCapture' = NoCapture
    /\ scanLastCapture' = [correction |-> scanCapture.correction,
                           url |-> CaptureUrlOf(scanCapture.canvas)]
    /\ IF scanMounted /\ ~scanCapture.stale
       THEN /\ scanCaptureUrl' = CaptureUrlOf(scanCapture.canvas)
            /\ fullCleanup
       ELSE /\ UNCHANGED <<scanCaptureUrl, scanWebcamReady>>
            /\ UNCHANGED trackerVars
    /\ UNCHANGED <<scanMounted, scanStep, scanPages, scanQuad, scanPhaseCalls>>
    /\ UNCHANGED notScannerVars

retakeCapture ==
    /\ scanMounted
    /\ scanStep = "capture"
    /\ scanCaptureUrl # Null
    /\ scanCaptureUrl' = Null
    /\ scanQuad' = Null
    /\ fullCleanup
    /\ UNCHANGED <<scanMounted, scanStep, scanPages, scanCapture, scanLastCapture,
                   scanPhaseCalls>>
    /\ UNCHANGED notScannerVars

\* confirmCapture(): the capture becomes a page
confirmCapture ==
    /\ scanMounted
    /\ scanStep = "capture"
    /\ scanCaptureUrl # Null
    /\ scanPages < MaxPages
    /\ scanPages' = scanPages + 1
    /\ scanCaptureUrl' = Null
    /\ scanQuad' = Null
    /\ scanStep' = "edit"
    /\ fullCleanup
    /\ UNCHANGED <<scanMounted, scanCapture, scanLastCapture, scanPhaseCalls>>
    /\ UNCHANGED notScannerVars

removePage ==
    /\ scanMounted
    /\ scanStep = "edit"
    /\ scanPages > 0
    /\ scanPages' = scanPages - 1
    /\ fullCleanup
    /\ UNCHANGED <<scanMounted, scanStep, scanCaptureUrl, scanQuad, scanCapture,
                   scanLastCapture, scanPhaseCalls>>
    /\ UNCHANGED notScannerVars

\* 'add page': setStep('capture'); resetDetection()
addMorePages ==
    /\ scanMounted
    /\ scanStep = "edit"
    /\ scanStep' = "capture"
    /\ ResetCall
    /\ scanPhaseCalls' = 0
    /\ UNCHANGED <<scanMounted, scanCaptureUrl, scanPages, scanQuad, scanWebcamReady,
                   scanCapture, scanLastCapture>>
    /\ UNCHANGED notScannerVars

\* setStep('finalize'), and the effect of leaving the capture step
goToFinalize ==
    /\ scanMounted
    /\ scanPages > 0
    /\ \/ scanStep = "edit"
       \/ scanStep = "capture" /\ scanCaptureUrl = Null
    /\ scanStep' = "finalize"
    /\ scanWebcamReady' = FALSE
    /\ scanQuad' = Null
    /\ UNCHANGED <<scanMounted, scanCaptureUrl, scanPages, scanCapture,
                   scanLastCapture, scanPhaseCalls>>
    /\ UNCHANGED trackerVars
    /\ UNCHANGED notScannerVars

\* the back button of the finalize step: setStep('edit')
BackToEdit ==
    /\ scanMounted
    /\ scanStep = "finalize"
    /\ scanStep' = "edit"
    /\ UNCHANGED <<scanMounted, scanCaptureUrl, scanPages, scanQuad, scanWebcamReady,
                   scanCapture, scanLastCapture, scanPhaseCalls>>
    /\ UNCHANGED trackerVars
    /\ UNCHANGED notScannerVars

NextScanner ==
    \/ Mount
    \/ Unmount
    \/ onCloseSafe
    \/ handleUserMedia
    \/ DetectLoop
    \/ capture
    \/ CorrectionSettles
    \/ CaptureDone
    \/ retakeCapture
    \/ confirmCapture
    \/ removePage
    \/ addMorePages
    \/ goToFinalize
    \/ BackToEdit

SpecScanner == InitScanner /\ [][NextScanner]_vars

(***************************************************************************)
(* Properties                                                              *)
(***************************************************************************)
AfterDetect == lastCall.op = "detectDocument"

\* the last call was detectDocument on a video that delivers a frame
AfterFrame == AfterDetect /\ lastCall.video \in GoodVideos

\* C1: starting from an empty history, a run of consecutive successful
\* detections of one and the same quadrilateral returns stable:false on its
\* calls 1 to 4 and stable:true on call 5 and on every later call.
C1_StableFromFifth ==
    (AfterDetect /\ streak.n >= 1 /\ streak.fromEmpty) =>
        (result.stable <=> streak.n >= STABILITY_THRESHOLD)

\* a run from an empty history long enough to have passed a trim
C1_LongRun ==
    /\ AfterDetect
    /\ streak.fromEmpty
    /\ streak.n = MaxStreak
    /\ result.stable

\* C2: after any detectDocument call that returns detected:false, whatever
\* the reason, the stability history is empty.
C2_HistoryEmptyAfterFailure ==
    (AfterDetect /\ ~result.detected) => previousQuads = <<>>

\* C3: resetDetection leaves the history empty, and none of the first four
\* detectDocument calls after a resetDetection returns stable:true.
C3_NotStableAfterReset ==
    /\ lastCall.op = "resetDetection" => previousQuads = <<>>
    /\ (AfterDetect /\ sinceReset < STABILITY_THRESHOLD) => ~result.stable

\* the fourth call after a reset, each of the four a successful detection
C3_FourthAfterReset ==
    /\ AfterDetect
    /\ sinceReset = STABILITY_THRESHOLD - 1
    /\ result.detected
    /\ Len(previousQuads) = STABILITY_THRESHOLD - 1

\* C4: after 5 detections of a quad q and a 6th detection whose quad is more
\* than 15 px away from q in a corner, the 6th call and the calls 7 to 10
\* that detect q again return stable:false, and call 11 returns stable:true.
C4_StableAgainAtEleven ==
    AfterDetect =>
        /\ phase.stage \in 6 .. 10 => ~result.stable
        /\ phase.stage = 11 => result.stable

C4_EleventhCall ==
    /\ AfterDetect
    /\ phase.stage = 11
    /\ result.stable
    /\ result.quad = phase.ref

\* C5: every result of detectDocument has quad null exactly when detected is
\* false, stable false and confidence 0 when detected is false, and a
\* confidence between 0 and 1 (0..1000 thousandths).
C5_ResultWellFormed ==
    AfterDetect =>
        /\ result.quad = Null <=> ~result.detected
        /\ ~result.detected => (~result.stable /\ result.confidence = 0)
        /\ result.confidence \in 0 .. 1000

\* a stable detection, with its quad and a confidence above 0
C5_StableDetection ==
    /\ AfterDetect
    /\ result.detected
    /\ result.stable
    /\ result.quad # Null
    /\ result.confidence > 0

\* C6: detectDocument never lets an exception escape: for a source of zero
\* width or height, without 2D context, or when the pipeline throws, it
\* returns {detected:false, quad:null, confidence:0, stable:false}.
C6_NeverRaises ==
    AfterDetect =>
        /\ ~raised
        /\ lastCall.video \in FailingVideos => result = NotDetected

C6_ExceptionCaught ==
    /\ AfterDetect
    /\ lastCall.video.throws
    /\ lastCall.video.ctx
    /\ ~raised
    /\ result = NotDetected

\* C7: the history never holds more than 2 * STABILITY_THRESHOLD quads; a
\* successful detection appends its own quad, and when that makes the
\* length exceed 2 * STABILITY_THRESHOLD the history becomes exactly the
\* last STABILITY_THRESHOLD quads of the appended history, in order.
C7_HistoryBounded ==
    [][ /\ Len(previousQuads') <= 2 * STABILITY_THRESHOLD
        /\ (lastCall'.op = "detectDocument" /\ result'.detected) =>
              IF Len(previousQuads) + 1 > 2 * STABILITY_THRESHOLD
              THEN /\ Len(previousQuads') = STABILITY_THRESHOLD
                   /\ \A i \in 1 .. STABILITY_THRESHOLD :
                         previousQuads'[i] =
                             Append(previousQuads, result'.quad)
                                 [Len(previousQuads) + 1 - STABILITY_THRESHOLD + i]
              ELSE previousQuads' = Append(previousQuads, result'.quad)
      ]_vars

\* the history right after a trim
C7_JustTrimmed ==
    /\ AfterDetect
    /\ result.detected
    /\ streak.fromEmpty
    /\ streak.n = 2 * STABILITY_THRESHOLD + 1
    /\ Len(previousQuads) = STABILITY_THRESHOLD

\* C8: every quadrilateral the selector returns is a simple convex polygon
\* when its corners are visited in the order topLeft, topRight,
\* bottomRight, bottomLeft (no two turns of the path have opposite
\* directions), for every set of input contours.
C8_SelectedQuadConvex ==
    (selected # Null /\ selected.quad # Null) =>
        isConvex(Corners(selected.quad))

\* the corners of rectangle r in source pixels, the source being scale
\* times as large as the analysis canvas
TrueCorners(r, scale) ==
    [topLeft     |-> Point(r.x0 * scale, r.y0 * scale),
     topRight    |-> Point(r.x1 * scale, r.y0 * scale),
     bottomRight |-> Point(r.x1 * scale, r.y1 * scale),
     bottomLeft  |-> Point(r.x0 * scale, r.y1 * scale)]

\* each corner of q within 2 analysis pixels, in x and in y, of the corner
\* of r that has the same label
CornersNear(q, r, scale) ==
    \A i \in 1 .. 4 :
        /\ Abs(Corners(q)[i].x - Corners(TrueCorners(r, scale))[i].x) <= 2 * scale
        /\ Abs(Corners(q)[i].y - Corners(TrueCorners(r, scale))[i].y) <= 2 * scale

\* the area of rectangle r is between 10% and 95% of the canvas
InAreaRange(r) ==
    LET area == (r.x1 - r.x0 + 1) * (r.y1 - r.y0 + 1)
    IN  /\ 10 * area >= Canvas.width * Canvas.height
        /\ 100 * area <= 95 * Canvas.width * Canvas.height

\* the last call was detectDocument on a frame showing one white rectangle,
\* of 10% to 95% of the frame, on black
AfterRectangle ==
    /\ AfterFrame
    /\ lastCall.video.scene \in DOMAIN Rectangles
    /\ InAreaRange(Rectangles[lastCall.video.scene])

ShownRectangle == Rectangles[lastCall.video.scene]
SourceScale == lastCall.video.sourceWidth \div Canvas.width

\* C9 as stated: every such rectangle is detected, with each corner within
\* the tolerance of the true corner of the same label.
C9_RectangleDetected ==
    AfterRectangle =>
        /\ result.detected
        /\ CornersNear(result.quad, ShownRectangle, SourceScale)

\* C9: when a white rectangle of 10% to 95% of the frame is detected, each
\* returned corner lies within 2 analysis pixels of the true corner of the
\* same label.
C9_DetectedCornersNear ==
    (AfterRectangle /\ result.detected) =>
        CornersNear(result.quad, ShownRectangle, SourceScale)

C9_RectangleFound ==
    /\ AfterRectangle
    /\ result.detected
    /\ CornersNear(result.quad, ShownRectangle, SourceScale)

\* C10: for every uniform frame detectDocument returns detected:false with
\* confidence 0.
C10_UniformNotDetected ==
    (AfterFrame /\ lastCall.video.scene \in {"bright", "dark"}) =>
        (~result.detected /\ result.confidence = 0)

\* the four corners the selector derives from a contour
CornersOfContour(contour) ==
    findCorners(simplifyPolygon(contour, Frac(2 * Len(contour), 100)))

\* the Shoelace area of the contour's corners lies in the closed interval
\* from 10% to 95% of the area of AreaFrame
InClosedAreaInterval(contour) ==
    LET area == polygonArea(CornersOfContour(contour))
        frameArea == AreaFrame.width * AreaFrame.height
    IN  /\ ~Greater(Frac(frameArea, 10), area)
        /\ ~Greater(area, Frac(frameArea * 95, 100))

\* C11: the area filter accepts a convex 4-corner candidate exactly when
\* its Shoelace area lies in the closed interval from 10% to 95% of the
\* frame area (a candidate of exactly 10% passes).
C11_ClosedAreaInterval ==
    (selected # Null /\ Len(contourSet) = 1) =>
        (selected.quad # Null <=>
            /\ Len(CornersOfContour(contourSet[1])) = 4
            /\ isConvex(CornersOfContour(contourSet[1]))
            /\ InClosedAreaInterval(contourSet[1]))


(***************************************************************************)
(* Enhancement                                                             *)
(***************************************************************************)
NeutralTone == enhOptions.brightness = 100 /\ enhOptions.contrast = 100

Channels(image) == { image.data[i][c] : i \in 1 .. Len(image.data), c \in 1 .. 3 }

\* C14: with mode color, brightness 100, contrast 100, sharpen false and
\* removeBackground false, enhanceDocument leaves every channel of every pixel
\* as it was.
C14_NeutralColorIdentity ==
    (/\ enhPasses >= 1
     /\ enhOptions.mode = "color"
     /\ NeutralTone
     /\ ~enhOptions.sharpen
     /\ ~enhOptions.removeBackground) => enhCanvas = enhOriginal

C14_NeutralColorPass ==
    /\ enhPasses = 1
    /\ enhOptions.mode = "color"
    /\ NeutralTone
    /\ ~enhOptions.sharpen
    /\ ~enhOptions.removeBackground
    /\ enhOriginal = RingImage(<<200, 100, 50, 255>>, <<30, 60, 200, 128>>)

\* C15: in mode bw every R, G and B channel of the output is 0 or 255, for
\* every image and every brightness, contrast, sharpen and removeBackground.
C15_BwChannelsBinary ==
    (enhPasses >= 1 /\ enhOptions.mode = "bw") => Channels(enhCanvas) \subseteq {0, 255}

C15_BwSharpenedShadows ==
    /\ enhPasses = 1
    /\ enhOptions.mode = "bw"
    /\ enhOptions.sharpen
    /\ enhOptions.removeBackground
    /\ enhOptions.contrast = 200
    /\ Channels(enhCanvas) = {0, 255}
    /\ Channels(enhOriginal) \cap {0, 255} = {}

\* C16 as stated: with brightness 100 and contrast 100 a second pass with the
\* same options changes nothing, for every image, mode, sharpen and
\* removeBackground.
C16_NeutralIdempotent ==
    (enhPasses >= 2 /\ NeutralTone) => enhCanvas = enhBefore

\* C16 amended: with brightness 100 and contrast 100 a second pass with the
\* same options changes nothing when the mode is bw, or when sharpen and
\* removeBackground are both off.
C16_NeutralIdempotentUnfiltered ==
    (/\ enhPasses >= 2
     /\ NeutralTone
     /\ \/ enhOptions.mode = "bw"
        \/ ~enhOptions.sharpen /\ ~enhOptions.removeBackground) => enhCanvas = enhBefore

C16_SecondGrayscalePass ==
    /\ enhPasses = 2
    /\ NeutralTone
    /\ enhOptions.mode = "grayscale"
    /\ ~enhOptions.sharpen
    /\ ~enhOptions.removeBackground
    /\ enhBefore # enhOriginal
    /\ enhCanvas = enhBefore

\* C17: a call whose mode is none of color, grayscale and bw is rejected and
\* leaves the image as it was.
C17_UnknownModeRejected ==
    (enhPasses >= 1 /\ enhOptions.mode \notin ValidModes) =>
        (enhRejected /\ enhCanvas = enhOriginal)

(***************************************************************************)
(* Perspective correction                                                  *)
(***************************************************************************)
\* every channel of every pixel of image equals that of source at the same
\* position, up to one unit of rounding
SameWithinRounding(image, source) ==
    /\ image.width = source.width
    /\ image.height = source.height
    /\ \A i \in 1 .. Len(source.data) : \A c \in 1 .. 4 :
           Abs(image.data[i][c] - source.data[i][c]) <= 1

\* C12: applyPerspectiveCorrection with a quad whose corners are the corners
\* of the source image and no output size returns an image of the dimensions of
\* the source whose pixels equal the source pixels at the same position, within
\* rounding.
C12_FullQuadIdentity ==
    (perspResult # Null /\ perspQuad \in FullQuads(perspSource)) =>
        (perspResult # Rejected /\ SameWithinRounding(perspResult, perspSource))

(***************************************************************************)
(* The stable flag and the history                                         *)
(***************************************************************************)
\* the history holds at least n entries and each of its n most recent
\* entries is within STABILITY_TOLERANCE of quad, corner by corner
LastClose(quads, quad, n) ==
    /\ Len(quads) >= n
    /\ \A i \in 1 .. Len(SliceLast(quads, n)) :
           quadsClose(quad, SliceLast(quads, n)[i], STABILITY_TOLERANCE)

\* C19 as stated: a successful detection of q is stable exactly when at least
\* STABILITY_THRESHOLD entries were recorded before the call and each of the
\* STABILITY_THRESHOLD most recent of them is within tolerance of q.
C19_StableIffFivePrior ==
    (AfterDetect /\ result.detected) =>
        (result.stable <=> LastClose(priorQuads, result.quad, STABILITY_THRESHOLD))

\* C19 amended: a successful detection of q is stable exactly when at least
\* STABILITY_THRESHOLD - 1 entries were recorded before the call and each of
\* the STABILITY_THRESHOLD - 1 most recent of them is within tolerance of q:
\* q itself is the fifth entry of the window.
C19_StableIffFourPrior ==
    (AfterDetect /\ result.detected) =>
        (result.stable <=> LastClose(priorQuads, result.quad, STABILITY_THRESHOLD - 1))

\* stable with exactly four entries before the call
C19_StableOnFourPrior ==
    /\ AfterDetect
    /\ result.detected
    /\ result.stable
    /\ Len(priorQuads) = STABILITY_THRESHOLD - 1

\* C20: the stable flag of every detectDocument call equals the flag of the
\* tracker that never trims its history, over every sequence of successful
\* detections, failed detections and resets.
C20_TrimUnobservable ==
    AfterDetect => result.stable = untrimmedStable

\* a stable detection after the trim has cut the history
C20_StableAfterTrim ==
    /\ AfterDetect
    /\ result.stable
    /\ untrimmedStable
    /\ Len(untrimmedQuads) > STABILITY_THRESHOLD * 2
    /\ Len(previousQuads) < Len(untrimmedQuads)

C18_PhaseStartsEmpty ==
    AfterDetect =>
        /\ scanPhaseCalls = 1 => priorQuads = <<>>
        /\ result.stable => scanPhaseCalls >= STABILITY_THRESHOLD

\* the first detection of the capture phase of a second page or of a second
\* session, after a capture with a detected quad
C18_FirstCallOfLaterPhase ==
    /\ scanMounted
    /\ AfterDetect
    /\ result.detected
    /\ scanPhaseCalls = 1
    /\ priorQuads = <<>>
    /\ scanLastCapture # Null
    /\ scanLastCapture.correction = "resolved"

(***************************************************************************)
(* The tolerance of the tracker: detections whose quads differ from one    *)
(* another in one corner by exactly STABILITY_TOLERANCE pixels or by a     *)
(* little more.  The source is as wide as the analysis canvas, so that the *)
(* corners are not scaled.                                                 *)
(***************************************************************************)
MaxShifted == 5

ToleranceVideo == Video("rect", 200, 200)

ToleranceQuad ==
    [topLeft |-> Point(40, 40), topRight |-> Point(160, 40),
     bottomRight |-> Point(160, 160), bottomLeft |-> Point(40, 160)]

\* displacements of length 15 (along an axis, and 9-12-15) and of length
\* sqrt(256) and sqrt(242)
CornerShifts ==
    { [corner |-> "topLeft", dx |-> 0, dy |-> 0],
      [corner |-> "topLeft", dx |-> 15, dy |-> 0],
      [corner |-> "bottomRight", dx |-> 9, dy |-> 12],
      [corner |-> "topLeft", dx |-> 16, dy |-> 0],
      [corner |-> "bottomRight", dx |-> 11, dy |-> 11] }

ShiftedQuad(shift) ==
    [ToleranceQuad EXCEPT ![shift.corner] =
        Point(ToleranceQuad[shift.corner].x + shift.dx,
              ToleranceQuad[shift.corner].y + shift.dy)]

\* detectDocument on a frame in which the selector finds the shifted quad
detectShifted(shift) ==
    /\ Len(untrimmedQuads) < MaxShifted
    /\ RecordCall(ToleranceVideo,
                  CatchDetect(TryDetect(ToleranceVideo,
                                          [quad |-> ShiftedQuad(shift), confidence |-> 800],
                                          ToleranceVideo.sourceWidth, previousQuads)))
    /\ UNCHANGED notTrackerVars

DetectShifted == \E shift \in CornerShifts : detectShifted(shift)

NextTolerance ==
    \/ DetectShifted
    \/ resetDetection

SpecTolerance == Init /\ [][NextTolerance]_vars

\* the Euclidean distance of a and b is at most d
WithinDistance(a, b, d) == DistSq(a, b) <= d * d

\* C21: two quads are close exactly when each of the four corresponding
\* corner pairs is at most STABILITY_TOLERANCE = 15 px apart: with 5 entries
\* or more in the history, a detection is stable exactly when every corner of
\* each of the 5 most recent entries is within 15 px, 15 included, of the same
\* corner of the detected quad.
C21_ToleranceInclusive ==
    (lastCall.op = "detectDocument" /\ result.detected
        /\ Len(previousQuads) >= STABILITY_THRESHOLD) =>
        (result.stable <=>
            \A i \in 1 .. STABILITY_THRESHOLD :
                \A corner \in {"topLeft", "topRight", "bottomRight", "bottomLeft"} :
                    WithinDistance(
                        previousQuads[Len(previousQuads) - STABILITY_THRESHOLD + i][corner],
                        result.quad[corner], 15))

\* a stable detection with a corner exactly 15 px from the same corner of one
\* of the entries compared, along a diagonal (9 across, 12 down)
C21_StableAtExactlyFifteen ==
    /\ lastCall.op = "detectDocument"
    /\ result.detected
    /\ result.stable
    /\ \E i \in 1 .. Len(previousQuads) :
           \E corner \in {"topLeft", "bottomRight"} :
               /\ DistSq(previousQuads[i][corner], result.quad[corner]) = 225
               /\ previousQuads[i][corner].y # result.quad[corner].y

(***************************************************************************)
(* The selector's ranking: findBestQuadrilateral applied, in the 40x30     *)
(* image, to up to 3 contours of different scores, some of which fail the  *)
(* filters.                                                                *)
(***************************************************************************)
MaxContours == 3

\* rectangles of 150, 280 (twice), 600 and 1064 square pixels, one of 84
\* (below 10% of the image) and a stroke of 3 points
RankedContours ==
    { RectangleOutline(4, 10, 34, 15), RectangleOutline(0, 0, 20, 14),
      RectangleOutline(10, 10, 30, 24), RectangleOutline(4, 4, 34, 24),
      RectangleOutline(0, 0, 38, 28), RectangleOutline(4, 10, 32, 13),
      <<Point(5, 5), Point(6, 5), Point(7, 5)>> }

RECURSIVE ContourLists(_)
ContourLists(n) ==
    IF n = 0 THEN {<<>>}
    ELSE ContourLists(n - 1)
         \cup { Append(list, contour) :
                    list \in { l \in ContourLists(n - 1) : Len(l) = n - 1 },
                    contour \in RankedContours }

InitRanking ==
    /\ InitTracker
    /\ IdleUrls
    /\ IdleCountdown
    /\ IdleTracer
    /\ IdleSimplifier
    /\ contourSet \in ContourLists(MaxContours)
    /\ selected = Null
    /\ IdleEnhancer
    /\ IdleCorrector
    /\ IdleScanner

SpecRanking == InitRanking /\ [][NextAreaFilter]_vars

\* the contour's 4-corner candidate passes the area and convexity filters
PassesFilters(contour) ==
    LET simplified == simplifyPolygon(contour, Frac(2 * Len(contour), 100))
        corners == findCorners(simplified)
        frameArea == AreaFrame.width * AreaFrame.height
    IN  /\ Len(simplified) >= 4
        /\ Len(simplified) <= 8
        /\ Len(corners) = 4
        /\ Greater(polygonArea(corners), Frac(frameArea, 10))
        /\ Greater(Frac(frameArea * 95, 100), polygonArea(corners))
        /\ isConvex(corners)

\* 0.6 * min(area / maxArea, 1) + 0.4 * (1 - min(|aspectRatio - 1.41| / 2, 1))
\* of the contour's candidate, in thousandths
ScoreOfContour(contour) ==
    LET quad == orderPoints(CornersOfContour(contour))
    IN  Score(AreaScore(polygonArea(CornersOfContour(contour)),
                        Frac(AreaFrame.width * AreaFrame.height * 95, 100)),
              AspectScore(DistSq(quad.topRight, quad.topLeft),
                          DistSq(quad.bottomLeft, quad.topLeft)))

\* C22: findBestQuadrilateral returns, among the contours whose candidate
\* passes the area and convexity filters, a candidate of maximal score, with
\* confidence equal to that score; it returns (null, 0) exactly when no
\* candidate passes the filters.
C22_BestScoreReturned ==
    selected # Null =>
        LET passing == { c \in 1 .. Len(contourSet) : PassesFilters(contourSet[c]) }
        IN  /\ (selected.quad = Null) <=> (passing = {})
            /\ selected.quad = Null => selected.confidence = 0
            /\ selected.quad # Null =>
                   /\ \E c \in passing :
                          /\ selected.quad = orderPoints(CornersOfContour(contourSet[c]))
                          /\ selected.confidence = ScoreOfContour(contourSet[c])
                   /\ \A c \in passing : ScoreOfContour(contourSet[c]) <= selected.confidence

\* three passing candidates of which the second has the greatest score and
\* the third a smaller one: the second is returned
C22_SecondOfThreeWins ==
    /\ selected # Null
    /\ Len(contourSet) = 3
    /\ \A c \in 1 .. 3 : PassesFilters(contourSet[c])
    /\ ScoreOfContour(contourSet[2]) > ScoreOfContour(contourSet[1])
    /\ ScoreOfContour(contourSet[2]) > ScoreOfContour(contourSet[3])
    /\ selected.quad = orderPoints(CornersOfContour(contourSet[2]))
    /\ selected.confidence = ScoreOfContour(contourSet[2])

(***************************************************************************)
(* The selector's vertex filter and corner reduction: findBestQuadrilateral *)
(* applied, in the 40x30 image, to rectangles some of whose corners are cut *)
(* off, to triangles and to open strokes.                                   *)
(***************************************************************************)
RECURSIVE PathFrom(_, _)
\* the pixels of the closed path through the vertices, from vertex i on
PathFrom(vertices, i) ==
    IF i > Len(vertices) THEN <<>>
    ELSE Segment(vertices[i], vertices[(i % Len(vertices)) + 1])
         \o PathFrom(vertices, i + 1)

ClosedPath(vertices) == PathFrom(vertices, 1)

\* the vertices, clockwise from the top left, of the rectangle (x0, y0),
\* (x1, y1) whose corners in cuts are cut off k pixels from the corner
CutRectangle(x0, y0, x1, y1, cuts, k) ==
    (IF "tl" \in cuts THEN <<Point(x0 + k, y0)>> ELSE <<Point(x0, y0)>>)
    \o (IF "tr" \in cuts THEN <<Point(x1 - k, y0), Point(x1, y0 + k)>>
        ELSE <<Point(x1, y0)>>)
    \o (IF "br" \in cuts THEN <<Point(x1, y1 - k), Point(x1 - k, y1)>>
        ELSE <<Point(x1, y1)>>)
    \o (IF "bl" \in cuts THEN <<Point(x0 + k, y1), Point(x0, y1 - k)>>
        ELSE <<Point(x0, y1)>>)
    \o (IF "tl" \in cuts THEN <<Point(x0, y0 + k)>> ELSE <<>>)

\* an open stroke: the pixels from a to b and on to c, c included
Stroke(a, b, c) == Segment(a, b) \o Segment(b, c) \o <<c>>

PolygonContours ==
    { ClosedPath(CutRectangle(x0, y0, x0 + w, y0 + h, cuts, 6)) :
          x0 \in {2, 4}, y0 \in {2, 3}, w \in {28, 32}, h \in {20, 22},
          cuts \in SUBSET {"tl", "tr", "br", "bl"} }
    \cup { ClosedPath(<<Point(2, 2), Point(x, 4), Point(6, y)>>) :
               x \in {30, 36}, y \in {24, 28} }
    \cup { Stroke(Point(2, 2), Point(x, 2), Point(x, y)) :
               x \in {30, 36}, y \in {24, 28} }

InitPolygons ==
    /\ InitTracker
    /\ IdleUrls
    /\ IdleCountdown
    /\ IdleTracer
    /\ IdleSimplifier
    /\ contourSet \in { <<contour>> : contour \in PolygonContours }
    /\ selected = Null
    /\ IdleEnhancer
    /\ IdleCorrector
    /\ IdleScanner

SpecPolygons == InitPolygons /\ [][NextAreaFilter]_vars

\* the simplified polygon of the contour the selector was given
SimplifiedContour ==
    simplifyPolygon(contourSet[1], Frac(2 * Len(contourSet[1]), 100))

\* pt is a vertex of the polygon with the greatest wx * x + wy * y
ExtremeVertex(polygon, pt, wx, wy) ==
    /\ \E i \in 1 .. Len(polygon) : polygon[i] = pt
    /\ \A i \in 1 .. Len(polygon) :
           wx * polygon[i].x + wy * polygon[i].y <= wx * pt.x + wy * pt.y

\* C23: a contour is a candidate only if its simplified polygon has 4 to 8
\* vertices; a polygon of more than 4 vertices is reduced to the 4 vertices
\* of minimal x+y, maximal x-y, maximal x+y and minimal x-y, and a polygon of
\* exactly 4 vertices is used as it is.
C23_VertexCountAndExtremes ==
    (selected # Null /\ selected.quad # Null) =>
        LET polygon == SimplifiedContour
        IN  /\ Len(polygon) >= 4
            /\ Len(polygon) <= 8
            /\ Len(polygon) = 4 => selected.quad = orderPoints(polygon)
            /\ Len(polygon) > 4 =>
                   \E i, j, k, l \in 1 .. Len(polygon) :
                       /\ ExtremeVertex(polygon, polygon[i], -1, -1)
                       /\ ExtremeVertex(polygon, polygon[j], 1, -1)
                       /\ ExtremeVertex(polygon, polygon[k], 1, 1)
                       /\ ExtremeVertex(polygon, polygon[l], -1, 1)
                       /\ selected.quad =
                              orderPoints(<<polygon[i], polygon[j], polygon[k], polygon[l]>>)

\* a polygon of 8 vertices reduced to four corners that are not its first
\* four vertices
C23_EightReducedToFour ==
    /\ selected # Null
    /\ selected.quad # Null
    /\ Len(SimplifiedContour) = 8
    /\ selected.quad # orderPoints(SubSeq(SimplifiedContour, 1, 4))

(***************************************************************************)
(* findContours on its own, applied to binary maps that show one-pixel     *)
(* wide rings, bars and rings hanging from a vertical stem.                *)
(***************************************************************************)
EdgeFrame == [width |-> 36, height |-> 22]

\* the outline of the rectangle of w columns and h rows with top left pixel
\* (x0, y0): 2 * (w + h) - 4 pixels
Ring(x0, y0, w, h) ==
    { Point(x, y) : x \in {x0, x0 + w - 1}, y \in y0 .. (y0 + h - 1) }
    \cup { Point(x, y) : x \in x0 .. (x0 + w - 1), y \in {y0, y0 + h - 1} }

\* n pixels in a row from (x0, y0) on
Bar(x0, y0, n) == { Point(x, y0) : x \in x0 .. (x0 + n - 1) }

\* a ring hanging from a stem of the given length that ends on its top row
Lollipop(x0, y0, w, h, stem) ==
    { Point(x0 + (w \div 2), y) : y \in y0 .. (y0 + stem - 1) }
    \cup Ring(x0, y0 + stem, w, h)

\* the pixels of column x of the map
Column(x) == { Point(x, y) : y \in 0 .. (EdgeFrame.height - 1) }

\* the binary map of EdgeFrame in which the pixels are 255 and the rest 0
EdgeMapOf(pixels) ==
    [width |-> EdgeFrame.width, height |-> EdgeFrame.height,
     data |-> Eager([i \in 1 .. (EdgeFrame.width * EdgeFrame.height) |->
                  IF Point((i - 1) % EdgeFrame.width, (i - 1) \div EdgeFrame.width) \in pixels
                  THEN 255 ELSE 0])]

EdgeMaps ==
    { EdgeMapOf(Ring(2, 2, w, h)) : w \in 11 .. 16, h \in 11 .. 15 }
    \cup { EdgeMapOf(Ring(2, 3, w1, h1) \cup Ring(20, 2, w2, h2)) :
               w1 \in {13, 14}, h1 \in {12, 13, 14}, w2 \in {13, 14}, h2 \in {12, 13, 14} }
    \cup { EdgeMapOf(Bar(2, 2, n)) : n \in 24 .. 28 }
    \cup { EdgeMapOf(Lollipop(2, 2, w, 8, stem)) : w \in {9, 12}, stem \in {1, 4} }
    \cup { EdgeMapOf(Ring(0, 2, w, 14) \cup Column(EdgeFrame.width - 1)) : w \in {14, 15} }
    \cup { EdgeMapOf({}) }

InitContours ==
    /\ InitTracker
    /\ IdleUrls
    /\ IdleCountdown
    /\ IdleSimplifier
    /\ edgeMap \in EdgeMaps
    /\ keptContours = Null
    /\ everyTrace = Null
    /\ IdleSelector
    /\ IdleEnhancer
    /\ IdleCorrector
    /\ IdleScanner

\* contours = findContours(binary, width, height)
TraceContours ==
    /\ keptContours = Null
    /\ keptContours' = [contours |-> findContours(edgeMap.data, edgeMap.width, edgeMap.height)]
    /\ everyTrace' = [traces |-> TracesOf(edgeMap.data, edgeMap.width, edgeMap.height)]
    /\ UNCHANGED edgeMap
    /\ UNCHANGED notTracerVars

NextContours == TraceContours

SpecContours == InitContours /\ [][NextContours]_vars

\* the row-major index of the pixel a contour starts at
StartIndex(contour) == contour[1].y * edgeMap.width + contour[1].x

\* C24: findContours keeps a traced contour exactly when it has at least 50
\* points, and returns the kept contours in the row-major order of their
\* start pixels.
C24_KeptIffFiftyOrMore ==
    keptContours # Null =>
        /\ keptContours.contours =
               SelectSeq(everyTrace.traces, LAMBDA contour : Len(contour) >= 50)
        /\ \A i, j \in 1 .. Len(keptContours.contours) :
               i < j => StartIndex(keptContours.contours[i])
                            < StartIndex(keptContours.contours[j])

\* the pixels p and q touch by a side or by a corner
EightNeighbours(p, q) ==
    /\ p # q
    /\ Abs(p.x - q.x) <= 1
    /\ Abs(p.y - q.y) <= 1

\* C25: every trace of findContours ends (back on its start pixel, without a
\* neighbouring edge pixel, or after 10,000 steps): no contour has more than
\* 10,000 points, every point of a contour is an in-bounds pixel of value 255
\* and consecutive points are 8-neighbours.
C25_TracesBoundedAndConnected ==
    everyTrace # Null =>
        \A t \in 1 .. Len(everyTrace.traces) :
            LET contour == everyTrace.traces[t]
            IN  /\ Len(contour) >= 1
                /\ Len(contour) <= 10000
                /\ \A i \in 1 .. Len(contour) :
                       /\ contour[i].x >= 0
                       /\ contour[i].x < edgeMap.width
                       /\ contour[i].y >= 0
                       /\ contour[i].y < edgeMap.height
                       /\ At(edgeMap.data, contour[i].y * edgeMap.width + contour[i].x) = 255
                /\ \A i \in 1 .. (Len(contour) - 1) :
                       EightNeighbours(contour[i], contour[i + 1])

\* a returned contour that the cap of 10,000 steps ended: the walker circles
\* a ring it entered from a stem and never comes back to its start pixel
C25_CappedTrace ==
    /\ keptContours # Null
    /\ \E c \in 1 .. Len(keptContours.contours) :
           /\ Len(keptContours.contours[c]) = 10000
           /\ keptContours.contours[c][10000] # keptContours.contours[c][1]

(***************************************************************************)
(* simplifyPolygon on its own: every sequence of up to MaxPoints points    *)
(* drawn from five points, three of them on one line, with epsilon 0, 1    *)
(* and 5/2.                                                                *)
(***************************************************************************)
MaxPoints == 4

SimplifierPoints == { Point(0, 0), Point(6, 0), Point(3, 4), Point(12, 0), Point(3, 1) }

RECURSIVE PointLists(_)
PointLists(n) ==
    IF n = 0 THEN {<<>>}
    ELSE PointLists(n - 1)
         \cup { Append(list, pt) :
                    list \in { l \in PointLists(n - 1) : Len(l) = n - 1 },
                    pt \in SimplifierPoints }

Epsilons == { Frac(0, 1), Frac(1, 1), Frac(5, 2) }

InitSimplify ==
    /\ InitTracker
    /\ IdleUrls
    /\ IdleCountdown
    /\ IdleTracer
    /\ polyPoints \in PointLists(MaxPoints)
    /\ polyEpsilon \in Epsilons
    /\ polySimplified = Null
    /\ IdleSelector
    /\ IdleEnhancer
    /\ IdleCorrector
    /\ IdleScanner

\* simplified = simplifyPolygon(points, epsilon)
Simplify ==
    /\ polySimplified = Null
    /\ polySimplified' = [points |-> simplifyPolygon(polyPoints, polyEpsilon)]
    /\ UNCHANGED <<polyPoints, polyEpsilon>>
    /\ UNCHANGED notSimplifierVars

NextSimplify == Simplify

SpecSimplify == InitSimplify /\ [][NextSimplify]_vars

\* The square of the distance as lines 211-222 compute it, as a fraction:
\* to lineStart when the chord has no length, otherwise to the point
\* lineStart + t * (dx, dy) with t = dot / (dx * dx + dy * dy).
ProjectedDistSq(point, lineStart, lineEnd) ==
    LET ddx == lineEnd.x - lineStart.x
        ddy == lineEnd.y - lineStart.y
        len == ddx * ddx + ddy * ddy
        dot == (point.x - lineStart.x) * ddx + (point.y - lineStart.y) * ddy
    IN  IF len = 0
        THEN Frac(DistSq(point, lineStart), 1)
        ELSE Frac(((point.x - lineStart.x) * len - dot * ddx)
                      * ((point.x - lineStart.x) * len - dot * ddx)
                  + ((point.y - lineStart.y) * len - dot * ddy)
                      * ((point.y - lineStart.y) * len - dot * ddy),
                  len * len)

\* out picks points of pts in their order, the first and the last included
EndsKeptSubsequence(out, pts) ==
    /\ Len(out) >= 2
    /\ \E pick \in [1 .. Len(out) -> 1 .. Len(pts)] :
           /\ pick[1] = 1
           /\ pick[Len(out)] = Len(pts)
           /\ \A i \in 1 .. (Len(out) - 1) : pick[i] < pick[i + 1]
           /\ \A i \in 1 .. Len(out) : out[i] = pts[pick[i]]

\* point k of pts is an interior point farthest from the chord
IsFarthest(pts, k) ==
    \A i \in 2 .. (Len(pts) - 1) :
        ~Greater(ProjectedDistSq(pts[i], pts[1], pts[Len(pts)]),
                 ProjectedDistSq(pts[k], pts[1], pts[Len(pts)]))

\* C26: simplifyPolygon returns a subsequence of its input that begins with
\* the first and ends with the last point; a span no interior point of which
\* is farther than epsilon from the chord (perpendicular distance, or the
\* distance to the start when the chord has no length) collapses to its two
\* endpoints; otherwise a farthest point is kept once and both sub-chains
\* are simplified; fewer than 3 points are returned unchanged.
C26_DouglasPeucker ==
    polySimplified # Null =>
        LET pts == polyPoints
            out == polySimplified.points
            epsSq == Frac(polyEpsilon.num * polyEpsilon.num, polyEpsilon.den * polyEpsilon.den)
            beyond == { i \in 2 .. (Len(pts) - 1) :
                          Greater(ProjectedDistSq(pts[i], pts[1], pts[Len(pts)]), epsSq) }
        IN  /\ Len(pts) < 3 => out = pts
            /\ Len(pts) >= 3 =>
                   /\ EndsKeptSubsequence(out, pts)
                   /\ beyond = {} => out = <<pts[1], pts[Len(pts)]>>
                   /\ beyond # {} =>
                          \E k \in beyond :
                              /\ IsFarthest(pts, k)
                              /\ LET left == simplifyPolygon(SubSeq(pts, 1, k), polyEpsilon)
                                     right == simplifyPolygon(SubSeq(pts, k, Len(pts)), polyEpsilon)
                                 IN  /\ left[Len(left)] = pts[k]
                                     /\ right[1] = pts[k]
                                     /\ out = SubSeq(left, 1, Len(left) - 1) \o right

\* four points of which both interior points are kept, the farthest by the
\* first split and the other by the split of a sub-chain
C26_BothInteriorKept ==
    /\ polySimplified # Null
    /\ Len(polyPoints) = 4
    /\ polySimplified.points = polyPoints
    /\ polyPoints[2] # polyPoints[3]
    /\ polyPoints[1] # polyPoints[4]

(***************************************************************************)
(* The warp of applyPerspectiveCorrection for quads on the edges of the    *)
(* image, inside it, partly outside it, and one pixel wide or high.        *)
(***************************************************************************)
\* corners one pixel outside the image on every side
OutsideQuad(source) ==
    [topLeft |-> Point(-1, -1), topRight |-> Point(source.width, -1),
     bottomRight |-> Point(source.width, source.height),
     bottomLeft |-> Point(-1, source.height)]

\* the left column of pixel centres over the whole height, one pixel wide
NarrowQuad(source) ==
    [topLeft |-> Point(0, 0), topRight |-> Point(1, 0),
     bottomRight |-> Point(1, source.height), bottomLeft |-> Point(0, source.height)]

\* the top row over the whole width, one pixel high
FlatQuad(source) ==
    [topLeft |-> Point(0, 0), topRight |-> Point(source.width, 0),
     bottomRight |-> Point(source.width, 1), bottomLeft |-> Point(0, 1)]

\* a tilted quad inside the image
TiltedQuad(source) ==
    [topLeft |-> Point(1, 0), topRight |-> Point(source.width - 1, 1),
     bottomRight |-> Point(source.width - 2, source.height - 1),
     bottomLeft |-> Point(0, source.height - 2)]

WarpQuads(source) ==
    FullQuads(source)
    \union { OutsideQuad(source), NarrowQuad(source), FlatQuad(source), TiltedQuad(source) }

InitWarp ==
    /\ InitTracker
    /\ IdleUrls
    /\ IdleCountdown
    /\ IdleTracer
    /\ IdleSimplifier
    /\ IdleSelector
    /\ IdleEnhancer
    /\ perspSource \in SourceImages
    /\ perspQuad \in WarpQuads(perspSource)
    /\ perspResult = Null
    /\ IdleScanner

SpecWarp == InitWarp /\ [][NextCorrector]_vars

\* the correction ran and returned an image
Warped == perspResult # Null /\ perspResult # Rejected

\* the source coordinates and neighbour indices of output pixel i
WarpAt(i) ==
    SourceCoordinates(perspSource, perspQuad,
                      (i - 1) % perspResult.width, (i - 1) \div perspResult.width,
                      perspResult.width, perspResult.height)

\* C27: for every quad and every destination pixel the neighbour indices
\* x0, x1, y0, y1 lie in [0, sourceWidth - 1] x [0, sourceHeight - 1], so
\* that no read falls outside the source buffer or into another row.
C27_NeighboursClamped ==
    (Warped /\ perspResult.width > 1 /\ perspResult.height > 1) =>
        \A i \in 1 .. (perspResult.width * perspResult.height) :
            /\ WarpAt(i).x0 \in 0 .. (perspSource.width - 1)
            /\ WarpAt(i).x1 \in 0 .. (perspSource.width - 1)
            /\ WarpAt(i).y0 \in 0 .. (perspSource.height - 1)
            /\ WarpAt(i).y1 \in 0 .. (perspSource.height - 1)

\* C28: for every output size, an output width or height of 1 included, and
\* every destination pixel, u = x / (outputWidth - 1) and
\* v = y / (outputHeight - 1) are well-defined values in [0, 1], the source
\* coordinate lies inside the bounding box of the four corners, and the four
\* destination corner pixels sample exactly topLeft, topRight, bottomRight
\* and bottomLeft.
C28_NormalisedCoordinates ==
    Warped =>
        /\ perspResult.width - 1 # 0
        /\ perspResult.height - 1 # 0
        /\ LET den == (perspResult.width - 1) * (perspResult.height - 1)
               xs == { perspQuad[corner].x :
                           corner \in {"topLeft", "topRight", "bottomRight", "bottomLeft"} }
               ys == { perspQuad[corner].y :
                           corner \in {"topLeft", "topRight", "bottomRight", "bottomLeft"} }
               last == perspResult.width * perspResult.height
           IN  /\ \A i \in 1 .. last :
                      /\ \E lo, hi \in xs : lo * den <= WarpAt(i).srcXNum
                                            /\ WarpAt(i).srcXNum <= hi * den
                      /\ \E lo, hi \in ys : lo * den <= WarpAt(i).srcYNum
                                            /\ WarpAt(i).srcYNum <= hi * den
               /\ WarpAt(1).srcXNum = perspQuad.topLeft.x * den
               /\ WarpAt(1).srcYNum = perspQuad.topLeft.y * den
               /\ WarpAt(perspResult.width).srcXNum = perspQuad.topRight.x * den
               /\ WarpAt(perspResult.width).srcYNum = perspQuad.topRight.y * den
               /\ WarpAt(last).srcXNum = perspQuad.bottomRight.x * den
               /\ WarpAt(last).srcYNum = perspQuad.bottomRight.y * den
               /\ WarpAt(last - perspResult.width + 1).srcXNum = perspQuad.bottomLeft.x * den
               /\ WarpAt(last - perspResult.width + 1).srcYNum = perspQuad.bottomLeft.y * den

(***************************************************************************)
(* The blob URLs of ProfessionalScanner.  Each handler is taken with the   *)
(* render that follows it: the effect of lines 157-161 has fullCleanup as  *)
(* its dependency and fullCleanup depends on currentCaptureUrl and pages,  *)
(* so after every render that changed one of the two React runs the        *)
(* fullCleanup of the render before, on that render's values.              *)
(***************************************************************************)
MaxUrls == 6

\* the n-th blob URL that blobToObjectUrl returned
BlobUrl(n) == [blob |-> n]

\* the URLs that fullCleanup gives to safeRevokeObjectUrl, which skips null
CleanupRevokes(captureUrl, pageUrls) ==
    (IF captureUrl = Null THEN {} ELSE {captureUrl})
    \union { pageUrls[i] : i \in 1 .. Len(pageUrls) }

\* the render after a handler that revoked handlerRevokes and set
\* currentCaptureUrl and pages
Rendered(handlerRevokes, captureUrl, pageUrls) ==
    /\ urlCapture' = captureUrl
    /\ urlPages' = pageUrls
    /\ urlRevoked' = urlRevoked \union handlerRevokes \union
           (IF captureUrl # urlCapture \/ pageUrls # urlPages
            THEN CleanupRevokes(urlCapture, urlPages)
            ELSE {})

\* fetch(url) of a revoked blob URL is rejected
Loadable(blobUrl) == blobUrl \notin urlRevoked

\* capture() to its end: the frame is encoded and becomes currentCaptureUrl
captureUrls ==
    /\ ~urlClosed
    /\ urlStep = "capture"
    /\ urlCapture = Null
    /\ urlMade < MaxUrls
    /\ urlMade' = urlMade + 1
    /\ Rendered({}, BlobUrl(urlMade + 1), urlPages)
    /\ UNCHANGED <<urlStep, urlIndex, urlClosed>>
    /\ UNCHANGED notUrlVars

retakeCaptureUrls ==
    /\ ~urlClosed
    /\ urlStep = "capture"
    /\ urlCapture # Null
    /\ Rendered({urlCapture}, Null, urlPages)
    /\ UNCHANGED <<urlStep, urlIndex, urlMade, urlClosed>>
    /\ UNCHANGED notUrlVars

\* confirmCapture(): the capture is enhanced, encoded again and appended
confirmCaptureUrls ==
    /\ ~urlClosed
    /\ urlStep = "capture"
    /\ urlCapture # Null
    /\ Loadable(urlCapture)
    /\ urlMade < MaxUrls
    /\ urlMade' = urlMade + 1
    /\ urlIndex' = Len(urlPages)
    /\ urlStep' = "edit"
    /\ Rendered({urlCapture}, Null, Append(urlPages, BlobUrl(urlMade + 1)))
    /\ UNCHANGED urlClosed
    /\ UNCHANGED notUrlVars

\* applyEdits(): the current page is processed again and its URL replaced;
\* applyCrop() does the same to currentCaptureUrl, pages and the URLs
applyEditsUrls ==
    /\ ~urlClosed
    /\ urlStep = "edit"
    /\ Len(urlPages) # 0
    /\ Loadable(urlPages[urlIndex + 1])
    /\ urlMade < MaxUrls
    /\ urlMade' = urlMade + 1
    /\ Rendered({urlPages[urlIndex + 1]}, urlCapture,
                [urlPages EXCEPT ![urlIndex + 1] = BlobUrl(urlMade + 1)])
    /\ UNCHANGED <<urlStep, urlIndex, urlClosed>>
    /\ UNCHANGED notUrlVars

\* removePage(index), index counted from 0
removePageUrls(index) ==
    /\ ~urlClosed
    /\ urlStep \in {"capture", "edit"}
    /\ index + 1 \in 1 .. Len(urlPages)
    /\ urlIndex' = LET nextLen == Len(urlPages) - 1
                   IN  IF nextLen <= 0 THEN 0
                       ELSE IF urlIndex >= nextLen THEN nextLen - 1
                       ELSE urlIndex
    /\ Rendered({urlPages[index + 1]}, urlCapture,
                [i \in 1 .. (Len(urlPages) - 1) |->
                    IF i < index + 1 THEN urlPages[i] ELSE urlPages[i + 1]])
    /\ UNCHANGED <<urlStep, urlMade, urlClosed>>
    /\ UNCHANGED notUrlVars

RemovePageUrls == \E index \in 0 .. (MaxUrls - 1) : removePageUrls(index)

\* a thumbnail of the edit step: setCurrentPageIndex(index)
selectPageUrls(index) ==
    /\ ~urlClosed
    /\ urlStep = "edit"
    /\ index + 1 \in 1 .. Len(urlPages)
    /\ index # urlIndex
    /\ urlIndex' = index
    /\ UNCHANGED <<urlStep, urlCapture, urlPages, urlRevoked, urlMade, urlClosed>>
    /\ UNCHANGED notUrlVars

SelectPageUrls == \E index \in 0 .. (MaxUrls - 1) : selectPageUrls(index)

addMorePagesUrls ==
    /\ ~urlClosed
    /\ urlStep = "edit"
    /\ urlStep' = "capture"
    /\ UNCHANGED <<urlCapture, urlPages, urlIndex, urlRevoked, urlMade, urlClosed>>
    /\ UNCHANGED notUrlVars

\* the close button: fullCleanup() of the current render, then onClose()
onCloseSafeUrls ==
    /\ ~urlClosed
    /\ urlClosed' = TRUE
    /\ urlRevoked' = urlRevoked \union CleanupRevokes(urlCapture, urlPages)
    /\ UNCHANGED <<urlStep, urlCapture, urlPages, urlIndex, urlMade>>
    /\ UNCHANGED notUrlVars

NextUrls ==
    \/ captureUrls
    \/ retakeCaptureUrls
    \/ confirmCaptureUrls
    \/ applyEditsUrls
    \/ RemovePageUrls
    \/ SelectPageUrls
    \/ addMorePagesUrls
    \/ onCloseSafeUrls

SpecUrls == Init /\ [][NextUrls]_vars

\* C29: as long as the scanner is not closed, the blob URL of a page that is
\* in the pages list is not revoked, whatever sequence of capture, confirm,
\* retake, edit, crop, remove-page and add-page actions was taken.
C29_ListedPageNotRevoked ==
    ~urlClosed => \A i \in 1 .. Len(urlPages) : urlPages[i] \notin urlRevoked

(***************************************************************************)
(* The auto-capture countdown of ProfessionalScanner, with its timers in   *)
(* milliseconds.  detectLoop is defined inside the effect of lines         *)
(* 259-311, whose dependencies are step, webcamReady, currentCaptureUrl,   *)
(* cameraState, autoCapture and stableMode: the handleAutoCapture it calls *)
(* is the one of the render in which the effect last ran, and the          *)
(* autoCaptureCountdown that one tests is that render's value.             *)
(***************************************************************************)
DETECTION_INTERVAL == 280
COUNTDOWN_INTERVAL == 500
COUNTDOWN_FROM == 3
MaxStarts == 3

Timer(ms) == [due |-> ms]
Counting(n) == [value |-> n]

\* the effect runs: requestAnimationFrame(detectLoop) with lastDetectionTime = 0,
\* so that the first frame detects
LoopEffect ==
    /\ loopDue' = Timer(0)
    /\ loopCountdown' = autoCaptureCountdown

\* the camera is ready in the capture step: the effect runs for the first time
startDetectLoop ==
    /\ loopDue = Null
    /\ captureCalls = 0
    /\ LoopEffect
    /\ UNCHANGED <<autoCapture, autoCaptureCountdown, autoCaptureInterval, loopStable,
                   countdownStarts, captureCalls>>
    /\ UNCHANGED notCountdownVars

\* the switch: setAutoCapture(checked); autoCapture is a dependency of the effect
setAutoCapture ==
    /\ loopDue # Null
    /\ autoCapture' = ~autoCapture
    /\ LoopEffect
    /\ UNCHANGED <<autoCaptureCountdown, autoCaptureInterval, loopStable,
                   countdownStarts, captureCalls>>
    /\ UNCHANGED notCountdownVars

\* handleAutoCapture() as the loop holds it
handleAutoCapture ==
    IF loopCountdown # Null
    THEN UNCHANGED <<autoCaptureCountdown, autoCaptureInterval, countdownStarts>>
    ELSE /\ autoCaptureCountdown' = Counting(COUNTDOWN_FROM)
         /\ autoCaptureInterval' = Timer(COUNTDOWN_INTERVAL)
         /\ countdownStarts' = IF autoCaptureCountdown = Null THEN 1
                                ELSE Min(countdownStarts + 1, MaxStarts)

\* a frame on which a detection is due; stable: result.stable and
\* result.confidence > 0.6
detectFrame(stable) ==
    /\ loopDue # Null
    /\ loopDue.due = 0
    /\ loopDue' = Timer(DETECTION_INTERVAL)
    /\ loopStable' = stable
    /\ IF autoCapture /\ stable
       THEN handleAutoCapture
       ELSE UNCHANGED <<autoCaptureCountdown, autoCaptureInterval, countdownStarts>>
    /\ UNCHANGED <<autoCapture, loopCountdown, captureCalls>>
    /\ UNCHANGED notCountdownVars

DetectFrame == \E stable \in BOOLEAN : detectFrame(stable)

\* the callback of setInterval: on the last tick capture() is called, whose
\* setCurrentCaptureUrl stops the loop
countdownTick ==
    /\ autoCaptureInterval # Null
    /\ autoCaptureInterval.due = 0
    /\ IF autoCaptureCountdown = Null \/ autoCaptureCountdown.value <= 1
       THEN /\ autoCaptureInterval' = Null
            /\ autoCaptureCountdown' = Null
            /\ captureCalls' = captureCalls + 1
            /\ loopDue' = Null
       ELSE /\ autoCaptureInterval' = Timer(COUNTDOWN_INTERVAL)
            /\ autoCaptureCountdown' = Counting(autoCaptureCountdown.value - 1)
            /\ UNCHANGED <<captureCalls, loopDue>>
    /\ UNCHANGED <<autoCapture, loopCountdown, loopStable, countdownStarts>>
    /\ UNCHANGED notCountdownVars

\* time passes until the next timer is due
TimePasses ==
    LET dues == (IF loopDue = Null THEN {} ELSE {loopDue.due})
                \union (IF autoCaptureInterval = Null THEN {} ELSE {autoCaptureInterval.due})
        elapsed == CHOOSE d \in dues : \A e \in dues : d <= e
    IN  /\ dues # {}
        /\ 0 \notin dues
        /\ loopDue' = IF loopDue = Null THEN Null ELSE Timer(loopDue.due - elapsed)
        /\ autoCaptureInterval' = IF autoCaptureInterval = Null THEN Null
                                  ELSE Timer(autoCaptureInterval.due - elapsed)
        /\ UNCHANGED <<autoCapture, autoCaptureCountdown, loopCountdown, loopStable,
                       countdownStarts, captureCalls>>
        /\ UNCHANGED notCountdownVars

NextCountdown ==
    \/ startDetectLoop
    \/ setAutoCapture
    \/ DetectFrame
    \/ countdownTick
    \/ TimePasses

SpecCountdown == Init /\ [][NextCountdown]_vars

\* the browser runs due frames and timer callbacks, and time passes
FairCountdown ==
    /\ SpecCountdown
    /\ WF_vars(startDetectLoop)
    /\ WF_vars(DetectFrame)
    /\ WF_vars(countdownTick)
    /\ WF_vars(TimePasses)

\* the countdown goes from null to 3, from 3 to 2, from 2 to 1 and from 1 to
\* null, the last with the call of capture()
CountdownOrder ==
    autoCaptureCountdown' # autoCaptureCountdown =>
        \/ autoCaptureCountdown = Null /\ autoCaptureCountdown' = Counting(COUNTDOWN_FROM)
        \/ /\ autoCaptureCountdown # Null
           /\ autoCaptureCountdown.value > 1
           /\ autoCaptureCountdown' = Counting(autoCaptureCountdown.value - 1)
        \/ /\ autoCaptureCountdown = Counting(1)
           /\ autoCaptureCountdown' = Null
           /\ captureCalls' = captureCalls + 1

\* C30: with auto-capture on, a stable detection with confidence > 0.6 starts
\* one countdown; the stable detections that follow every 280 ms do not start
\* its timer again; the countdown goes 3, 2, 1; and if the detections stay
\* stable capture() is eventually called, and called once.
C30_OneCountdownThenCapture ==
    /\ [](countdownStarts <= 1)
    /\ [][CountdownOrder]_vars
    /\ [](captureCalls <= 1)
    /\ (<>[](autoCapture /\ loopStable)) => <>(captureCalls = 1)

=========================================================================
